---- MODULE Spec2Model ----
(***************************************************************************)
(* The name-binding and control-flow-graph pass of the type checker        *)
(* (analyzer/binder.ts, class Binder), as a state machine.                 *)
(*                                                                         *)
(* The binder is a recursive parse-tree walker.  Every visitor is an       *)
(* operator from a binder state (a record with one field per private field *)
(* of Binder, per arena of heap objects and per side table that            *)
(* AnalyzerNodeInfo keeps on the parse nodes) to the binder state after    *)
(* the visitor has returned.  The steps of bindModule are the actions:     *)
(* entering the module scope, each round of the loop over the module's     *)
(* statements, leaving the module scope, each round of _bindDeferred, and  *)
(* the return.                                                             *)
(*                                                                         *)
(* Objects that the code shares by reference (flow nodes, scopes, symbols, *)
(* declarations, the two kinds of maps) live in arenas and are named by    *)
(* their index in the arena; 0 stands for undefined.                       *)
(***************************************************************************)
EXTENDS Integers, Sequences, FiniteSets, TLC

(***************************************************************************)
(* Parse nodes.  A node is a record with its type t, its id and its        *)
(* children.  Ids are unique in a tree and grow in source order, so the id *)
(* of a name node also stands for the start of its source range.           *)
(***************************************************************************)
NameNode(id, value) == [t |-> "Name", id |-> id, value |-> value]
ConstantNode(id, constType) == [t |-> "Constant", id |-> id, constType |-> constType]
NumberNode(id) == [t |-> "Number", id |-> id]
MemberAccessNode(id, leftExpression, memberName) ==
    [t |-> "MemberAccess", id |-> id, leftExpression |-> leftExpression,
     memberName |-> memberName]
CallNode(id, leftExpression, arguments) ==
    [t |-> "Call", id |-> id, leftExpression |-> leftExpression, arguments |-> arguments]
BinaryOperationNode(id, operator, leftExpression, rightExpression) ==
    [t |-> "BinaryOperation", id |-> id, operator |-> operator,
     leftExpression |-> leftExpression, rightExpression |-> rightExpression]
UnaryOperationNode(id, operator, expression) ==
    [t |-> "UnaryOperation", id |-> id, operator |-> operator, expression |-> expression]
TernaryNode(id, ifExpression, testExpression, elseExpression) ==
    [t |-> "Ternary", id |-> id, ifExpression |-> ifExpression,
     testExpression |-> testExpression, elseExpression |-> elseExpression]
AssignmentExpressionNode(id, name, rightExpression) ==
    [t |-> "AssignmentExpression", id |-> id, name |-> name,
     rightExpression |-> rightExpression]
YieldNode(id, expression) == [t |-> "Yield", id |-> id, expression |-> expression]
YieldFromNode(id, expression) == [t |-> "YieldFrom", id |-> id, expression |-> expression]
ParameterNode(id, name, defaultValue) ==
    [t |-> "Parameter", id |-> id, name |-> name, defaultValue |-> defaultValue]
LambdaNode(id, parameters, expression) ==
    [t |-> "Lambda", id |-> id, parameters |-> parameters, expression |-> expression]
ListComprehensionForNode(id, targetExpression, iterableExpression) ==
    [t |-> "ListComprehensionFor", id |-> id, targetExpression |-> targetExpression,
     iterableExpression |-> iterableExpression]
ListComprehensionIfNode(id, testExpression) ==
    [t |-> "ListComprehensionIf", id |-> id, testExpression |-> testExpression]
ListComprehensionNode(id, expression, comprehensions) ==
    [t |-> "ListComprehension", id |-> id, expression |-> expression,
     comprehensions |-> comprehensions]
TupleNode(id, expressions) == [t |-> "Tuple", id |-> id, expressions |-> expressions]
ArgumentNode(id, valueExpression) ==
    [t |-> "Argument", id |-> id, valueExpression |-> valueExpression,
     argumentCategory |-> "Simple"]

\* A statement list holds the small statements of one line.
StatementListNode(id, statements) ==
    [t |-> "StatementList", id |-> id, statements |-> statements]
SuiteNode(id, statements) == [t |-> "Suite", id |-> id, statements |-> statements]
PassNode(id) == [t |-> "Pass", id |-> id]
AssignmentNode(id, leftExpression, rightExpression) ==
    [t |-> "Assignment", id |-> id, leftExpression |-> leftExpression,
     rightExpression |-> rightExpression]
AugmentedAssignmentNode(id, leftExpression, rightExpression) ==
    [t |-> "AugmentedAssignment", id |-> id, leftExpression |-> leftExpression,
     rightExpression |-> rightExpression, destExpression |-> leftExpression]
TypeAnnotationNode(id, valueExpression, typeAnnotation) ==
    [t |-> "TypeAnnotation", id |-> id, valueExpression |-> valueExpression,
     typeAnnotation |-> typeAnnotation]
DelNode(id, expressions) == [t |-> "Del", id |-> id, expressions |-> expressions]
ReturnNode(id, returnExpression) ==
    [t |-> "Return", id |-> id, returnExpression |-> returnExpression]
RaiseNode(id, typeExpression) == [t |-> "Raise", id |-> id, typeExpression |-> typeExpression]
BreakNode(id) == [t |-> "Break", id |-> id]
ContinueNode(id) == [t |-> "Continue", id |-> id]
GlobalNode(id, nameList) == [t |-> "Global", id |-> id, nameList |-> nameList]
NonlocalNode(id, nameList) == [t |-> "Nonlocal", id |-> id, nameList |-> nameList]
IfNode(id, testExpression, ifSuite, elseSuite) ==
    [t |-> "If", id |-> id, testExpression |-> testExpression, ifSuite |-> ifSuite,
     elseSuite |-> elseSuite]
WhileNode(id, testExpression, whileSuite, elseSuite) ==
    [t |-> "While", id |-> id, testExpression |-> testExpression,
     whileSuite |-> whileSuite, elseSuite |-> elseSuite]
ForNode(id, targetExpression, iterableExpression, forSuite, elseSuite) ==
    [t |-> "For", id |-> id, targetExpression |-> targetExpression,
     iterableExpression |-> iterableExpression, forSuite |-> forSuite,
     elseSuite |-> elseSuite]
ExceptNode(id, typeExpression, name, exceptSuite) ==
    [t |-> "Except", id |-> id, typeExpression |-> typeExpression, name |-> name,
     exceptSuite |-> exceptSuite]
TryNode(id, trySuite, exceptClauses, elseSuite, finallySuite) ==
    [t |-> "Try", id |-> id, trySuite |-> trySuite, exceptClauses |-> exceptClauses,
     elseSuite |-> elseSuite, finallySuite |-> finallySuite]
WithItemNode(id, expression, target) ==
    [t |-> "WithItem", id |-> id, expression |-> expression, target |-> target]
WithNode(id, withItems, suite) ==
    [t |-> "With", id |-> id, withItems |-> withItems, suite |-> suite]
AssertNode(id, testExpression, exceptionExpression) ==
    [t |-> "Assert", id |-> id, testExpression |-> testExpression,
     exceptionExpression |-> exceptionExpression]
FunctionNode(id, name, parameters, suite, isAsync) ==
    [t |-> "Function", id |-> id, name |-> name, parameters |-> parameters,
     suite |-> suite, isAsync |-> isAsync, decorators |-> <<>>]
ClassNode(id, name, arguments, suite) ==
    [t |-> "Class", id |-> id, name |-> name, arguments |-> arguments, suite |-> suite,
     decorators |-> <<>>]
ImportFromNode(id, module, isWildcardImport, imports) ==
    [t |-> "ImportFrom", id |-> id, module |-> module,
     isWildcardImport |-> isWildcardImport, imports |-> imports]
ModuleNameNode(id, leadingDots, nameParts) ==
    [t |-> "ModuleName", id |-> id, leadingDots |-> leadingDots, nameParts |-> nameParts]
ImportFromAsNode(id, name, alias) ==
    [t |-> "ImportFromAs", id |-> id, name |-> name, alias |-> alias]
ModuleNode(id, statements) == [t |-> "Module", id |-> id, statements |-> statements]

\* An optional child that is absent (undefined in the code).
None == [t |-> "None", id |-> 0]
Present(node) == node.t # "None"

(***************************************************************************)
(* ParseTreeWalker: the children of a node, in the order the walker visits *)
(* them when a visitor returns true (and the order YieldFinder follows).   *)
(***************************************************************************)
Opt(node) == IF Present(node) THEN <<node>> ELSE <<>>

Children(n) ==
    CASE n.t = "MemberAccess" -> <<n.leftExpression, n.memberName>>
      [] n.t = "Call" -> <<n.leftExpression>> \o n.arguments
      [] n.t = "BinaryOperation" -> <<n.leftExpression, n.rightExpression>>
      [] n.t = "UnaryOperation" -> <<n.expression>>
      [] n.t = "Ternary" -> <<n.ifExpression, n.testExpression, n.elseExpression>>
      [] n.t = "AssignmentExpression" -> <<n.name, n.rightExpression>>
      [] n.t \in {"Yield", "YieldFrom"} -> Opt(n.expression)
      [] n.t = "Parameter" -> Opt(n.name) \o Opt(n.defaultValue)
      [] n.t = "Lambda" -> n.parameters \o <<n.expression>>
      [] n.t = "ListComprehensionFor" -> <<n.targetExpression, n.iterableExpression>>
      [] n.t = "ListComprehensionIf" -> <<n.testExpression>>
      [] n.t = "ListComprehension" -> <<n.expression>> \o n.comprehensions
      [] n.t = "Tuple" -> n.expressions
      [] n.t = "Argument" -> <<n.valueExpression>>
      [] n.t \in {"StatementList", "Suite", "Module"} -> n.statements
      [] n.t \in {"Assignment", "AugmentedAssignment"} ->
            <<n.leftExpression, n.rightExpression>>
      [] n.t = "TypeAnnotation" -> <<n.valueExpression, n.typeAnnotation>>
      [] n.t = "Del" -> n.expressions
      [] n.t = "Return" -> Opt(n.returnExpression)
      [] n.t = "Raise" -> Opt(n.typeExpression)
      [] n.t \in {"Global", "Nonlocal"} -> n.nameList
      [] n.t = "If" -> <<n.testExpression, n.ifSuite>> \o Opt(n.elseSuite)
      [] n.t = "While" -> <<n.testExpression, n.whileSuite>> \o Opt(n.elseSuite)
      [] n.t = "For" ->
            <<n.targetExpression, n.iterableExpression, n.forSuite>> \o Opt(n.elseSuite)
      [] n.t = "Except" -> Opt(n.typeExpression) \o Opt(n.name) \o <<n.exceptSuite>>
      [] n.t = "Try" ->
            <<n.trySuite>> \o n.exceptClauses \o Opt(n.elseSuite) \o Opt(n.finallySuite)
      [] n.t = "WithItem" -> <<n.expression>> \o Opt(n.target)
      [] n.t = "With" -> n.withItems \o <<n.suite>>
      [] n.t = "Assert" -> <<n.testExpression>> \o Opt(n.exceptionExpression)
      [] n.t = "Function" -> n.decorators \o <<n.name>> \o n.parameters \o <<n.suite>>
      [] n.t = "Class" -> n.decorators \o <<n.name>> \o n.arguments \o <<n.suite>>
      [] n.t = "ImportFrom" -> <<n.module>> \o n.imports
      [] n.t = "ModuleName" -> n.nameParts
      [] n.t = "ImportFromAs" -> <<n.name>> \o Opt(n.alias)
      [] n.t = "Import" -> n.list
      [] n.t = "ImportAs" -> <<n.module>> \o Opt(n.alias)
      [] OTHER -> <<>>

\* The parent links of the tree under `root`: the pairs <<child id, parent>>.
RECURSIVE ParentLinks(_)
ParentLinks(root) ==
    LET children == Children(root)
    IN  {<<children[i].id, root>> : i \in DOMAIN children}
        \cup UNION {ParentLinks(children[i]) : i \in DOMAIN children}

\* ParseNode.parent as a function of the node's id; the root has no parent.
Parents(root) ==
    LET links == ParentLinks(root)
    IN  [id \in {root.id} \cup {link[1] : link \in links} |->
            IF id = root.id THEN None
            ELSE (CHOOSE link \in links : link[1] = id)[2]]

\* YieldFinder.checkContainsYield: the walker descends into every child,
\* nested functions and lambdas included.
RECURSIVE checkContainsYield(_)
checkContainsYield(node) ==
    \/ node.t \in {"Yield", "YieldFrom"}
    \/ \E i \in DOMAIN Children(node) : checkContainsYield(Children(node)[i])

(***************************************************************************)
(* The state.                                                              *)
(***************************************************************************)
VARIABLES
    tree,                       \* the module's parse tree (the input)
    parentOf,                   \* ParseNode.parent: a node's id |-> its parent
    pc,                         \* where bindModule stands
    statementIndex,             \* the module-level loop of _walkStatementsAndReportUnreachable
    foundUnreachableStatement,  \* its local variable
    \* the private fields of Binder
    deferredBindingTasks, currentScope, notLocalBindings, nestedExceptDepth,
    currentFlowNode, targetFunctionDeclaration, currentBreakTarget,
    currentContinueTarget, currentTrueTarget, currentFalseTarget,
    currentExceptTargets, finallyTargets, currentReturnTarget,
    currentExecutionScopeReferenceMap,
    \* the heap: one arena per kind of object
    flowNodes, scopes, symbols, declarations, bindingMaps, referenceMaps,
    \* the side tables AnalyzerNodeInfo keeps on parse nodes
    nodeInfo,
    \* the diagnostic sink
    diagnostics,
    \* history of what the binder did (read by the properties only)
    history,
    \* which run of the binder over the tree this is, and what the first run
    \* left behind (the second specification binds the tree twice)
    run, firstRun,
    \* how many steps bindModule has taken (read by the fairness condition only)
    steps

vars == <<tree, parentOf, pc, statementIndex, foundUnreachableStatement,
          deferredBindingTasks, currentScope, notLocalBindings, nestedExceptDepth,
          currentFlowNode, targetFunctionDeclaration, currentBreakTarget,
          currentContinueTarget, currentTrueTarget, currentFalseTarget,
          currentExceptTargets, finallyTargets, currentReturnTarget,
          currentExecutionScopeReferenceMap,
          flowNodes, scopes, symbols, declarations, bindingMaps, referenceMaps,
          nodeInfo, diagnostics, history, run, firstRun, steps>>

\* The binder state the visitors work on.
State ==
    [tree |-> tree, parentOf |-> parentOf,
     deferredBindingTasks |-> deferredBindingTasks, currentScope |-> currentScope,
     notLocalBindings |-> notLocalBindings, nestedExceptDepth |-> nestedExceptDepth,
     currentFlowNode |-> currentFlowNode,
     targetFunctionDeclaration |-> targetFunctionDeclaration,
     currentBreakTarget |-> currentBreakTarget,
     currentContinueTarget |-> currentContinueTarget,
     currentTrueTarget |-> currentTrueTarget, currentFalseTarget |-> currentFalseTarget,
     currentExceptTargets |-> currentExceptTargets, finallyTargets |-> finallyTargets,
     currentReturnTarget |-> currentReturnTarget,
     currentExecutionScopeReferenceMap |-> currentExecutionScopeReferenceMap,
     flowNodes |-> flowNodes, scopes |-> scopes, symbols |-> symbols,
     declarations |-> declarations, bindingMaps |-> bindingMaps,
     referenceMaps |-> referenceMaps, nodeInfo |-> nodeInfo,
     diagnostics |-> diagnostics, history |-> history]

\* The next state is the binder state s (tree is the input and never changes).
Becomes(s) ==
    /\ deferredBindingTasks' = s.deferredBindingTasks
    /\ currentScope' = s.currentScope
    /\ notLocalBindings' = s.notLocalBindings
    /\ nestedExceptDepth' = s.nestedExceptDepth
    /\ currentFlowNode' = s.currentFlowNode
    /\ targetFunctionDeclaration' = s.targetFunctionDeclaration
    /\ currentBreakTarget' = s.currentBreakTarget
    /\ currentContinueTarget' = s.currentContinueTarget
    /\ currentTrueTarget' = s.currentTrueTarget
    /\ currentFalseTarget' = s.currentFalseTarget
    /\ currentExceptTargets' = s.currentExceptTargets
    /\ finallyTargets' = s.finallyTargets
    /\ currentReturnTarget' = s.currentReturnTarget
    /\ currentExecutionScopeReferenceMap' = s.currentExecutionScopeReferenceMap
    /\ flowNodes' = s.flowNodes
    /\ scopes' = s.scopes
    /\ symbols' = s.symbols
    /\ declarations' = s.declarations
    /\ bindingMaps' = s.bindingMaps
    /\ referenceMaps' = s.referenceMaps
    /\ nodeInfo' = s.nodeInfo
    /\ diagnostics' = s.diagnostics
    /\ history' = s.history
    /\ tree' = tree
    /\ parentOf' = parentOf

\* A visitor's result when it returns a value r besides the state.
Result(s, r) == [s |-> s, r |-> r]

\* The steps of a method happen in program order.  A method is written as
\* the composition of its steps, the first step innermost: the state a step
\* starts from is the argument it is given.  A step that reads that state more
\* than once is a local operator of it (the state is written t), and a value
\* that a later step needs is an argument of that step.  walk computes the state
\* it starts from before it visits the node.

(***************************************************************************)
(* AnalyzerNodeInfo: the side tables, each a function from node ids.       *)
(***************************************************************************)
EmptyNodeInfo ==
    [flowNode |-> <<>>, afterFlowNode |-> <<>>, scope |-> <<>>, declaration |-> <<>>,
     codeFlowExpressions |-> <<>>]

\* f with key k set to v.
Put(f, k, v) == (k :> v) @@ f

getFlowNode(s, node) ==
    IF node.id \in DOMAIN s.nodeInfo.flowNode THEN s.nodeInfo.flowNode[node.id] ELSE 0
getScope(s, node) ==
    IF node.id \in DOMAIN s.nodeInfo.scope THEN s.nodeInfo.scope[node.id] ELSE 0
setFlowNode(s, node, flowNode) ==
    [s EXCEPT !.nodeInfo.flowNode = Put(@, node.id, flowNode)]
setAfterFlowNode(s, node, flowNode) ==
    [s EXCEPT !.nodeInfo.afterFlowNode = Put(@, node.id, flowNode)]
setScope(s, node, scope) ==
    [s EXCEPT !.nodeInfo.scope = Put(@, node.id, scope),
              !.history = Append(@, [e |-> "setScope", node |-> node.id, scope |-> scope])]
setDeclaration(s, node, declaration) ==
    [s EXCEPT !.nodeInfo.declaration = Put(@, node.id, declaration)]
setCodeFlowExpressions(s, node, map) ==
    [s EXCEPT !.nodeInfo.codeFlowExpressions = Put(@, node.id, map)]

addError(s, message, node) ==
    [s EXCEPT !.diagnostics = Append(@, [message |-> message, node |-> node.id])]

(***************************************************************************)
(* Flow nodes.  A node's id is its index in the arena: getUniqueFlowNodeId *)
(* hands out consecutive numbers.  The Unreachable node is the static      *)
(* singleton, allocated before any binder runs.                            *)
(***************************************************************************)
FlowNode(flags) ==
    [flags |-> flags, antecedents |-> <<>>, antecedent |-> 0, node |-> 0,
     expression |-> 0, targetSymbolId |-> 0, aliasSymbolId |-> 0, names |-> <<>>,
     preFinallyGate |-> 0, isGateClosed |-> FALSE]

unreachableFlowNode == 1

indeterminateSymbolId == 0

\* An object just allocated is the last one of its arena.
Last(arena) == Len(arena)

isUnreachable(s, flowNode) == "Unreachable" \in s.flowNodes[flowNode].flags

isCodeUnreachable(s) == isUnreachable(s, s.currentFlowNode)

createStartFlowNode(s) == [s EXCEPT !.flowNodes = Append(@, FlowNode({"Start"}))]

createBranchLabel(s) == [s EXCEPT !.flowNodes = Append(@, FlowNode({"BranchLabel"}))]

createLoopLabel(s) == [s EXCEPT !.flowNodes = Append(@, FlowNode({"LoopLabel"}))]

\* _finishFlowLabel without the shortcut for a label of one antecedent.
finishFlowLabelKeepsLabel(s, label) ==
    IF Len(s.flowNodes[label].antecedents) = 0 THEN unreachableFlowNode ELSE label

finishFlowLabel(s, label) ==
    LET antecedents == s.flowNodes[label].antecedents
    IN  IF Len(antecedents) = 0 THEN unreachableFlowNode
        ELSE IF Len(antecedents) = 1 THEN antecedents[1]
        ELSE label

\* _addAntecedent without the test for an antecedent the label already has.
addAntecedentAgain(s, label, antecedent) ==
    IF ~isCodeUnreachable(s)
    THEN [s EXCEPT !.flowNodes[label].antecedents = Append(@, antecedent)]
    ELSE s

addAntecedent(s, label, antecedent) ==
    IF /\ ~isCodeUnreachable(s)
       \* Don't add the same antecedent twice.
       /\ ~\E i \in DOMAIN s.flowNodes[label].antecedents :
                s.flowNodes[label].antecedents[i] = antecedent
    THEN [s EXCEPT !.flowNodes[label].antecedents = Append(@, antecedent)]
    ELSE s

\* The current flow node becomes flowNode.
setCurrentFlowNode(s, flowNode) == [s EXCEPT !.currentFlowNode = flowNode]

\* this._addAntecedent(label, this._currentFlowNode)
addAntecedentOfCurrent(s, label) == addAntecedent(s, label, s.currentFlowNode)

\* this._currentFlowNode = this._finishFlowLabel(label)
finishFlowLabelAsCurrent(s, label) == setCurrentFlowNode(s, finishFlowLabel(s, label))

RECURSIVE addAntecedentToEach(_, _, _)
addAntecedentToEach(s, labels, antecedent) ==
    IF labels = <<>> THEN s
    ELSE addAntecedentToEach(addAntecedent(s, Head(labels), antecedent),
                             Tail(labels), antecedent)

\* _addExceptTargets that adds nothing.
addExceptTargetsNowhere(s, flowNode) == s

addExceptTargets(s, flowNode) ==
    IF s.currentExceptTargets.defined
    THEN addAntecedentToEach(s, s.currentExceptTargets.labels, flowNode)
    ELSE s

\* _currentExceptTargets is a list of labels or undefined.
NoExceptTargets == [defined |-> FALSE, labels |-> <<>>]
ExceptTargets(labels) == [defined |-> TRUE, labels |-> labels]

(***************************************************************************)
(* Scopes and symbols (analyzer/scope.ts, analyzer/symbol.ts).             *)
(***************************************************************************)
Scope(type, parent) == [type |-> type, parent |-> parent, symbolTable |-> <<>>]

lookUpSymbol(s, scope, name) ==
    IF name \in DOMAIN s.scopes[scope].symbolTable
    THEN s.scopes[scope].symbolTable[name] ELSE 0

\* The first scope on the parent chain that holds the name, with its symbol.
RECURSIVE lookUpSymbolRecursive(_, _, _)
lookUpSymbolRecursive(s, scope, name) ==
    IF scope = 0 THEN [symbol |-> 0, scope |-> 0]
    ELSE IF lookUpSymbol(s, scope, name) # 0
    THEN [symbol |-> lookUpSymbol(s, scope, name), scope |-> scope]
    ELSE lookUpSymbolRecursive(s, s.scopes[scope].parent, name)

RECURSIVE getGlobalScope(_, _)
getGlobalScope(s, scope) ==
    IF s.scopes[scope].type \in {"Module", "Builtin"} \/ s.scopes[scope].parent = 0
    THEN scope
    ELSE getGlobalScope(s, s.scopes[scope].parent)

\* Scope.addSymbol: a new symbol, installed under its name.
addSymbol(s, scope, name, flags) ==
    LET symbol == Len(s.symbols) + 1
    IN  [s EXCEPT !.symbols = Append(@, [name |-> name, flags |-> flags,
                                         declarations |-> <<>>, scope |-> scope]),
                  !.scopes[scope].symbolTable = Put(@, name, symbol)]

setSymbolFlag(s, symbol, flag) == [s EXCEPT !.symbols[symbol].flags = @ \cup {flag}]

(***************************************************************************)
(* Declarations.  A declaration is an object: the symbol's list and the    *)
(* parse node's side table hold the same one, so a later change to it      *)
(* (isGenerator, the statement lists) shows through both.                  *)
(***************************************************************************)
Declaration(type, node, range) ==
    [type |-> type, node |-> node.id, range |-> range, isMethod |-> FALSE,
     isGenerator |-> FALSE, returnStatements |-> <<>>, raiseStatements |-> <<>>,
     yieldStatements |-> <<>>, inferredTypeSource |-> 0, symbolName |-> "",
     usesLocalName |-> FALSE, path |-> "", moduleName |-> "", firstNamePart |-> "",
     implicitImports |-> <<>>]

\* The range of an alias or intrinsic declaration (getEmptyRange).
emptyRange == 0

newDeclaration(s, declaration) ==
    [s EXCEPT !.declarations = Append(@, declaration)]

\* Symbol.addDeclaration
addDeclaration(s, symbol, declaration) ==
    [s EXCEPT !.symbols[symbol].declarations = Append(@, declaration)]

(***************************************************************************)
(* Expressions: static evaluation, reference keys, the narrowing           *)
(* classifier.                                                             *)
(***************************************************************************)
\* StaticExpressions.evaluateStaticBoolLikeExpression: "true", "false" or
\* "undefined" (the expression is not statically constant).
RECURSIVE evaluateStaticBoolLikeExpression(_)
evaluateStaticBoolLikeExpression(node) ==
    CASE node.t = "Constant" ->
            IF node.constType = "True" THEN "true"
            ELSE IF node.constType \in {"False", "None"} THEN "false"
            ELSE "undefined"
      [] node.t = "UnaryOperation" /\ node.operator = "Not" ->
            LET value == evaluateStaticBoolLikeExpression(node.expression)
            IN  IF value = "true" THEN "false"
                ELSE IF value = "false" THEN "true" ELSE "undefined"
      [] node.t = "BinaryOperation" /\ node.operator \in {"And", "Or"} ->
            LET leftValue == evaluateStaticBoolLikeExpression(node.leftExpression)
                rightValue == evaluateStaticBoolLikeExpression(node.rightExpression)
            IN  IF leftValue = "undefined" \/ rightValue = "undefined" THEN "undefined"
                ELSE IF node.operator = "Or"
                THEN (IF leftValue = "true" \/ rightValue = "true" THEN "true" ELSE "false")
                ELSE (IF leftValue = "true" /\ rightValue = "true" THEN "true" ELSE "false")
      [] OTHER -> "undefined"

\* codeFlow.isCodeFlowSupportedForReference: a name, or a member access
\* chain that ends in a name.
RECURSIVE isCodeFlowSupportedForReference(_)
isCodeFlowSupportedForReference(reference) ==
    \/ reference.t = "Name"
    \/ /\ reference.t = "MemberAccess"
       /\ isCodeFlowSupportedForReference(reference.leftExpression)

\* codeFlow.createKeyForReference: the dotted name, as the list of its parts.
RECURSIVE createKeyForReference(_)
createKeyForReference(reference) ==
    IF reference.t = "Name" THEN <<reference.value>>
    ELSE createKeyForReference(reference.leftExpression) \o <<reference.memberName.value>>

isLogicalExpression(expression) ==
    \/ expression.t = "UnaryOperation" /\ expression.operator = "Not"
    \/ expression.t = "BinaryOperation" /\ expression.operator \in {"And", "Or"}

\* _isNarrowingExpression: r is the result, list the expression list after
\* the call (the code pushes to the list it is given).
RECURSIVE isNarrowingExpression(_, _)
\* _isNarrowingExpression that takes both sides of `X is Y`.
isNarrowingExpressionIsBothSides(expression, expressionList) ==
    CASE expression.t \in {"Name", "MemberAccess"} ->
            IF isCodeFlowSupportedForReference(expression)
            THEN [r |-> TRUE, list |-> Append(expressionList, expression)]
            ELSE [r |-> FALSE, list |-> expressionList]
      [] expression.t = "AssignmentExpression" ->
            [r |-> TRUE, list |-> Append(expressionList, expression.name)]
      [] expression.t = "BinaryOperation" ->
            LET isOrIsNotOperator == expression.operator \in {"Is", "IsNot"}
                equalsOrNotEqualsOperator == expression.operator \in {"Equals", "NotEquals"}
                left == isNarrowingExpression(expression.leftExpression, expressionList)
                right == isNarrowingExpression(expression.rightExpression, left.list)
            IN  IF isOrIsNotOperator \/ equalsOrNotEqualsOperator
                THEN IF /\ expression.rightExpression.t = "Constant"
                        /\ expression.rightExpression.constType = "None"
                     THEN left
                     ELSE IF /\ isOrIsNotOperator
                             /\ expression.leftExpression.t = "Call"
                             /\ expression.leftExpression.leftExpression.t = "Name"
                             /\ expression.leftExpression.leftExpression.value = "type"
                             /\ Len(expression.leftExpression.arguments) = 1
                             /\ expression.leftExpression.arguments[1].argumentCategory
                                    = "Simple"
                     THEN isNarrowingExpression(
                              expression.leftExpression.arguments[1].valueExpression,
                              expressionList)
                     ELSE [r |-> left.r \/ right.r, list |-> right.list]
                ELSE IF expression.operator = "In" THEN left
                ELSE [r |-> FALSE, list |-> expressionList]
      [] expression.t = "UnaryOperation" ->
            IF expression.operator = "Not"
            THEN isNarrowingExpression(expression.expression, expressionList)
            ELSE [r |-> FALSE, list |-> expressionList]
      [] expression.t = "AugmentedAssignment" ->
            isNarrowingExpression(expression.rightExpression, expressionList)
      [] expression.t = "Call" ->
            IF /\ expression.leftExpression.t = "Name"
               /\ \/ /\ expression.leftExpression.value \in {"isinstance", "issubclass"}
                     /\ Len(expression.arguments) = 2
                  \/ /\ expression.leftExpression.value = "callable"
                     /\ Len(expression.arguments) = 1
            THEN isNarrowingExpression(expression.arguments[1].valueExpression,
                                       expressionList)
            ELSE [r |-> FALSE, list |-> expressionList]
      [] OTHER -> [r |-> FALSE, list |-> expressionList]

\* referenceMap.set(key, key) for the key of every expression of the list.
\* _isNarrowingExpression that takes `X == Y` for no narrowing expression.
isNarrowingExpressionEqualsNoneOnly(expression, expressionList) ==
    CASE expression.t \in {"Name", "MemberAccess"} ->
            IF isCodeFlowSupportedForReference(expression)
            THEN [r |-> TRUE, list |-> Append(expressionList, expression)]
            ELSE [r |-> FALSE, list |-> expressionList]
      [] expression.t = "AssignmentExpression" ->
            [r |-> TRUE, list |-> Append(expressionList, expression.name)]
      [] expression.t = "BinaryOperation" ->
            LET isOrIsNotOperator == expression.operator \in {"Is", "IsNot"}
                equalsOrNotEqualsOperator == expression.operator \in {"Equals", "NotEquals"}
                left == isNarrowingExpression(expression.leftExpression, expressionList)
                right == isNarrowingExpression(expression.rightExpression, left.list)
            IN  IF isOrIsNotOperator \/ equalsOrNotEqualsOperator
                THEN IF /\ expression.rightExpression.t = "Constant"
                        /\ expression.rightExpression.constType = "None"
                     THEN left
                     ELSE IF /\ isOrIsNotOperator
                             /\ expression.leftExpression.t = "Call"
                             /\ expression.leftExpression.leftExpression.t = "Name"
                             /\ expression.leftExpression.leftExpression.value = "type"
                             /\ Len(expression.leftExpression.arguments) = 1
                             /\ expression.leftExpression.arguments[1].argumentCategory
                                    = "Simple"
                     THEN isNarrowingExpression(
                              expression.leftExpression.arguments[1].valueExpression,
                              expressionList)
                     ELSE IF isOrIsNotOperator THEN left
                     ELSE [r |-> FALSE, list |-> expressionList]
                ELSE IF expression.operator = "In" THEN left
                ELSE [r |-> FALSE, list |-> expressionList]
      [] expression.t = "UnaryOperation" ->
            IF expression.operator = "Not"
            THEN isNarrowingExpression(expression.expression, expressionList)
            ELSE [r |-> FALSE, list |-> expressionList]
      [] expression.t = "AugmentedAssignment" ->
            isNarrowingExpression(expression.rightExpression, expressionList)
      [] expression.t = "Call" ->
            IF /\ expression.leftExpression.t = "Name"
               /\ \/ /\ expression.leftExpression.value \in {"isinstance", "issubclass"}
                     /\ Len(expression.arguments) = 2
                  \/ /\ expression.leftExpression.value = "callable"
                     /\ Len(expression.arguments) = 1
            THEN isNarrowingExpression(expression.arguments[1].valueExpression,
                                       expressionList)
            ELSE [r |-> FALSE, list |-> expressionList]
      [] OTHER -> [r |-> FALSE, list |-> expressionList]

\* referenceMap.set(key, key) for the key of every expression of the list.
isNarrowingExpression(expression, expressionList) ==
    CASE expression.t \in {"Name", "MemberAccess"} ->
            IF isCodeFlowSupportedForReference(expression)
            THEN [r |-> TRUE, list |-> Append(expressionList, expression)]
            ELSE [r |-> FALSE, list |-> expressionList]
      [] expression.t = "AssignmentExpression" ->
            [r |-> TRUE, list |-> Append(expressionList, expression.name)]
      [] expression.t = "BinaryOperation" ->
            LET isOrIsNotOperator == expression.operator \in {"Is", "IsNot"}
                equalsOrNotEqualsOperator == expression.operator \in {"Equals", "NotEquals"}
                left == isNarrowingExpression(expression.leftExpression, expressionList)
                right == isNarrowingExpression(expression.rightExpression, left.list)
            IN  IF isOrIsNotOperator \/ equalsOrNotEqualsOperator
                THEN IF /\ expression.rightExpression.t = "Constant"
                        /\ expression.rightExpression.constType = "None"
                     THEN left
                     ELSE IF /\ isOrIsNotOperator
                             /\ expression.leftExpression.t = "Call"
                             /\ expression.leftExpression.leftExpression.t = "Name"
                             /\ expression.leftExpression.leftExpression.value = "type"
                             /\ Len(expression.leftExpression.arguments) = 1
                             /\ expression.leftExpression.arguments[1].argumentCategory
                                    = "Simple"
                     THEN isNarrowingExpression(
                              expression.leftExpression.arguments[1].valueExpression,
                              expressionList)
                     ELSE IF isOrIsNotOperator THEN left
                     ELSE [r |-> left.r \/ right.r, list |-> right.list]
                ELSE IF expression.operator = "In" THEN left
                ELSE [r |-> FALSE, list |-> expressionList]
      [] expression.t = "UnaryOperation" ->
            IF expression.operator = "Not"
            THEN isNarrowingExpression(expression.expression, expressionList)
            ELSE [r |-> FALSE, list |-> expressionList]
      [] expression.t = "AugmentedAssignment" ->
            isNarrowingExpression(expression.rightExpression, expressionList)
      [] expression.t = "Call" ->
            IF /\ expression.leftExpression.t = "Name"
               /\ \/ /\ expression.leftExpression.value \in {"isinstance", "issubclass"}
                     /\ Len(expression.arguments) = 2
                  \/ /\ expression.leftExpression.value = "callable"
                     /\ Len(expression.arguments) = 1
            THEN isNarrowingExpression(expression.arguments[1].valueExpression,
                                       expressionList)
            ELSE [r |-> FALSE, list |-> expressionList]
      [] OTHER -> [r |-> FALSE, list |-> expressionList]

\* referenceMap.set(key, key) for the key of every expression of the list.
registerReferenceKeys(s, expressionList) ==
    [s EXCEPT !.referenceMaps[s.currentExecutionScopeReferenceMap] =
        @ \cup {createKeyForReference(expressionList[i]) : i \in DOMAIN expressionList}]

(***************************************************************************)
(* ParseTreeUtils: questions about a node's ancestors, answered by going   *)
(* up the parent links.                                                    *)
(***************************************************************************)
\* The innermost proper ancestor of the node whose type is in `types`
\* (None when there is none).
RECURSIVE innermostAncestor(_, _, _)
innermostAncestor(s, node, types) ==
    LET parent == s.parentOf[node.id]
    IN  IF ~Present(parent) \/ parent.t \in types THEN parent
        ELSE innermostAncestor(s, parent, types)

getEnclosingFunction(s, node) ==
    LET ancestor == innermostAncestor(s, node, {"Function", "Class"})
    IN  IF ancestor.t = "Function" THEN ancestor ELSE None

getEnclosingClass(s, node, stopAtFunction) ==
    LET ancestor == innermostAncestor(s, node,
                        IF stopAtFunction THEN {"Class", "Function"} ELSE {"Class"})
    IN  IF ancestor.t = "Class" THEN ancestor ELSE None

\* The node whose scope the target of an assignment expression binds in:
\* the innermost function, lambda or module, comprehensions skipped; none
\* when a class comes first.
getEvaluationNodeForAssignmentExpression(s, node) ==
    LET ancestor == innermostAncestor(s, node, {"Function", "Lambda", "Module", "Class"})
    IN  IF ancestor.t = "Class" THEN None ELSE ancestor

\* convertOffsetsToRange: a node's range is its place in the source text,
\* which the node ids follow.
convertOffsetsToRange(node) == node.id

(***************************************************************************)
(* The flow nodes the binder creates.                                      *)
(***************************************************************************)
RECURSIVE walk(_, _)
RECURSIVE walkMultiple(_, _)

\* _createFlowConditional with the narrowing test before the static test.
createFlowConditionalNarrowingFirst(s, flags, antecedent, expression) ==
    LET isStaticallyExcluded(staticValue) ==
            \/ staticValue = "true" /\ flags = "FalseCondition"
            \/ staticValue = "false" /\ flags = "TrueCondition"
        create(t) ==
            [t EXCEPT !.flowNodes = Append(@,
                [FlowNode({flags}) EXCEPT !.expression = expression.id,
                                          !.antecedent = antecedent])]
        link(t) ==
            LET conditionalFlowNode == Last(t.flowNodes)
            IN  Result(addExceptTargets(t, conditionalFlowNode), conditionalFlowNode)
        narrow(narrowing) ==
            IF ~narrowing.r THEN Result(s, antecedent)
            ELSE IF isStaticallyExcluded(evaluateStaticBoolLikeExpression(expression))
            THEN Result(s, unreachableFlowNode)
            ELSE link(create(registerReferenceKeys(s, narrowing.list)))
    IN  IF isUnreachable(s, antecedent) THEN Result(s, antecedent)
        ELSE narrow(isNarrowingExpression(expression, <<>>))

createFlowConditional(s, flags, antecedent, expression) ==
    LET isStaticallyExcluded(staticValue) ==
            \/ staticValue = "true" /\ flags = "FalseCondition"
            \/ staticValue = "false" /\ flags = "TrueCondition"
        create(t) ==
            [t EXCEPT !.flowNodes = Append(@,
                [FlowNode({flags}) EXCEPT !.expression = expression.id,
                                          !.antecedent = antecedent])]
        link(t) ==
            LET conditionalFlowNode == Last(t.flowNodes)
            IN  Result(addExceptTargets(t, conditionalFlowNode), conditionalFlowNode)
        narrow(narrowing) ==
            IF ~narrowing.r THEN Result(s, antecedent)
            ELSE link(create(registerReferenceKeys(s, narrowing.list)))
    IN  IF isUnreachable(s, antecedent) THEN Result(s, antecedent)
        ELSE IF isStaticallyExcluded(evaluateStaticBoolLikeExpression(expression))
        THEN Result(s, unreachableFlowNode)
        ELSE narrow(isNarrowingExpression(expression, <<>>))

bindConditional(s, node, trueTarget, falseTarget) ==
    LET enter(t) == [t EXCEPT !.currentTrueTarget = trueTarget,
                              !.currentFalseTarget = falseTarget]
        restore(t) == [t EXCEPT !.currentTrueTarget = s.currentTrueTarget,
                                !.currentFalseTarget = s.currentFalseTarget]
        addTo(flags, target, conditional) ==
            [addAntecedent(conditional.s, target, conditional.r)
                EXCEPT !.history = Append(@,
                    [e |-> "condition", node |-> node.id, flag |-> flags,
                     flow |-> conditional.r, target |-> target])]
        condition(t, flags, target) ==
            addTo(flags, target, createFlowConditional(t, flags, t.currentFlowNode, node))
        bound(t) ==
            [t EXCEPT !.history = Append(@,
                [e |-> "conditional", node |-> node.id, trueTarget |-> trueTarget,
                 falseTarget |-> falseTarget, entry |-> s.currentFlowNode,
                 saved |-> <<s.currentTrueTarget, s.currentFalseTarget>>,
                 restored |-> <<t.currentTrueTarget, t.currentFalseTarget>>])]
    IN  IF ~isLogicalExpression(node)
        THEN condition(condition(bound(restore(walk(enter(s), node))),
                                 "TrueCondition", trueTarget),
                       "FalseCondition", falseTarget)
        ELSE bound(restore(walk(enter(s), node)))

createCallFlowNode(s, node) ==
    LET attach(t) == setFlowNode(t, node, t.currentFlowNode)
    IN  attach(IF ~isCodeUnreachable(s)
               THEN [s EXCEPT !.flowNodes = Append(@,
                         [FlowNode({"Call"}) EXCEPT !.node = node.id,
                                                    !.antecedent = s.currentFlowNode]),
                              !.currentFlowNode = Len(s.flowNodes) + 1]
               ELSE s)

createAssignmentAliasFlowNode(s, targetSymbolId, aliasSymbolId) ==
    IF ~isCodeUnreachable(s)
    THEN [s EXCEPT !.flowNodes = Append(@,
              [FlowNode({"AssignmentAlias"}) EXCEPT !.antecedent = s.currentFlowNode,
                                                    !.targetSymbolId = targetSymbolId,
                                                    !.aliasSymbolId = aliasSymbolId]),
                   !.currentFlowNode = Len(s.flowNodes) + 1]
    ELSE s

\* _createFlowAssignment that attaches the flow node to the target only if
\* the target has none attached, whether or not it unbinds.
createFlowAssignmentAttachedOnce(s, node, unbound) ==
    LET targetSymbolId ==
            IF node.t = "Name"
            THEN lookUpSymbolRecursive(s, s.currentScope, node.value).symbol
            ELSE indeterminateSymbolId
        prevFlowNode == s.currentFlowNode
        s1 == [s EXCEPT !.flowNodes = Append(@,
                  [FlowNode(IF unbound THEN {"Assignment", "Unbind"} ELSE {"Assignment"})
                      EXCEPT !.node = node.id, !.antecedent = s.currentFlowNode,
                             !.targetSymbolId = targetSymbolId])]
        link(t) ==
            LET flowNode == Last(t.flowNodes)
            IN  [addExceptTargets(t, flowNode) EXCEPT !.currentFlowNode = flowNode]
        attach(t) ==
            IF getFlowNode(t, node) = 0
            THEN setFlowNode(t, node, IF unbound THEN prevFlowNode ELSE t.currentFlowNode)
            ELSE t
    IN  attach(IF ~isCodeUnreachable(s) /\ isCodeFlowSupportedForReference(node)
               THEN link(registerReferenceKeys(s1, <<node>>)) ELSE s)

\* _createFlowAssignment that does not put the key of the target into the
\* reference map.
createFlowAssignmentKeyNotRegistered(s, node, unbound) ==
    LET targetSymbolId ==
            IF node.t = "Name"
            THEN lookUpSymbolRecursive(s, s.currentScope, node.value).symbol
            ELSE indeterminateSymbolId
        prevFlowNode == s.currentFlowNode
        s1 == [s EXCEPT !.flowNodes = Append(@,
                  [FlowNode(IF unbound THEN {"Assignment", "Unbind"} ELSE {"Assignment"})
                      EXCEPT !.node = node.id, !.antecedent = s.currentFlowNode,
                             !.targetSymbolId = targetSymbolId])]
        link(t) ==
            LET flowNode == Last(t.flowNodes)
            IN  [addExceptTargets(t, flowNode) EXCEPT !.currentFlowNode = flowNode]
        attach(t) ==
            IF ~unbound \/ getFlowNode(t, node) = 0
            THEN setFlowNode(t, node, IF unbound THEN prevFlowNode ELSE t.currentFlowNode)
            ELSE t
    IN  attach(IF ~isCodeUnreachable(s) /\ isCodeFlowSupportedForReference(node)
               THEN link(s1) ELSE s)

\* _createFlowAssignment that attaches a flow node to the target whether it
\* has one or not.
createFlowAssignmentAlwaysAttached(s, node, unbound) ==
    LET targetSymbolId ==
            IF node.t = "Name"
            THEN lookUpSymbolRecursive(s, s.currentScope, node.value).symbol
            ELSE indeterminateSymbolId
        prevFlowNode == s.currentFlowNode
        s1 == [s EXCEPT !.flowNodes = Append(@,
                  [FlowNode(IF unbound THEN {"Assignment", "Unbind"} ELSE {"Assignment"})
                      EXCEPT !.node = node.id, !.antecedent = s.currentFlowNode,
                             !.targetSymbolId = targetSymbolId])]
        link(t) ==
            LET flowNode == Last(t.flowNodes)
            IN  [addExceptTargets(t, flowNode) EXCEPT !.currentFlowNode = flowNode]
        attach(t) ==
            setFlowNode(t, node, IF unbound THEN prevFlowNode ELSE t.currentFlowNode)
    IN  attach(IF ~isCodeUnreachable(s) /\ isCodeFlowSupportedForReference(node)
               THEN link(registerReferenceKeys(s1, <<node>>)) ELSE s)

createFlowAssignment(s, node, unbound) ==
    LET targetSymbolId ==
            IF node.t = "Name"
            THEN lookUpSymbolRecursive(s, s.currentScope, node.value).symbol
            ELSE indeterminateSymbolId
        prevFlowNode == s.currentFlowNode
        s1 == [s EXCEPT !.flowNodes = Append(@,
                  [FlowNode(IF unbound THEN {"Assignment", "Unbind"} ELSE {"Assignment"})
                      EXCEPT !.node = node.id, !.antecedent = s.currentFlowNode,
                             !.targetSymbolId = targetSymbolId])]
        link(t) ==
            LET flowNode == Last(t.flowNodes)
            IN  [addExceptTargets(t, flowNode) EXCEPT !.currentFlowNode = flowNode]
        attach(t) ==
            IF ~unbound \/ getFlowNode(t, node) = 0
            THEN setFlowNode(t, node, IF unbound THEN prevFlowNode ELSE t.currentFlowNode)
            ELSE t
    IN  attach(IF ~isCodeUnreachable(s) /\ isCodeFlowSupportedForReference(node)
               THEN link(registerReferenceKeys(s1, <<node>>)) ELSE s)

createFlowWildcardImport(s, node, names) ==
    LET s1 == [s EXCEPT !.flowNodes = Append(@,
                  [FlowNode({"WildcardImport"}) EXCEPT !.node = node.id, !.names = names,
                                                       !.antecedent = s.currentFlowNode])]
        link(t) ==
            LET flowNode == Last(t.flowNodes)
            IN  [addExceptTargets(t, flowNode) EXCEPT !.currentFlowNode = flowNode]
        attach(t) == setFlowNode(t, node, t.currentFlowNode)
    IN  attach(IF ~isCodeUnreachable(s) THEN link(s1) ELSE s)

RECURSIVE createAssignmentTargetFlowNodes(_, _, _, _)
RECURSIVE createAssignmentTargetFlowNodesEach(_, _, _, _)
createAssignmentTargetFlowNodesEach(s, targets, walkTargets, unbound) ==
    IF targets = <<>> THEN s
    ELSE createAssignmentTargetFlowNodesEach(
             createAssignmentTargetFlowNodes(s, Head(targets), walkTargets, unbound),
             Tail(targets), walkTargets, unbound)
createAssignmentTargetFlowNodes(s, target, walkTargets, unbound) ==
    LET walkTarget(t) == IF walkTargets THEN walk(t, target) ELSE t
    IN  CASE target.t \in {"Name", "MemberAccess"} ->
                walkTarget(createFlowAssignment(s, target, unbound))
          [] target.t = "Tuple" ->
                createAssignmentTargetFlowNodesEach(s, target.expressions, walkTargets,
                                                    unbound)
          [] target.t = "TypeAnnotation" ->
                walkTarget(createAssignmentTargetFlowNodes(s, target.valueExpression,
                                                           FALSE, unbound))
          [] OTHER -> walkTarget(s)

(***************************************************************************)
(* Names, scopes and declarations.                                         *)
(***************************************************************************)
\* _bindLoopStatement up to its callback, and what it restores after it
\* (prev is the state in which it was called).
bindLoopStatement(s, preLoopLabel, postLoopLabel) ==
    [s EXCEPT !.currentContinueTarget = preLoopLabel,
              !.currentBreakTarget = postLoopLabel]
\* The end of _bindLoopStatement that leaves the targets of the loop in place.
bindLoopStatementTargetsKept(s, prev) == s

bindLoopStatementReturn(s, prev) ==
    [s EXCEPT !.currentContinueTarget = prev.currentContinueTarget,
              !.currentBreakTarget = prev.currentBreakTarget]

\* r is the symbol, 0 when the name is bound global or nonlocal.
bindNameToScope(s, scope, name) ==
    IF name \notin DOMAIN s.bindingMaps[s.notLocalBindings]
    THEN IF lookUpSymbol(s, scope, name) = 0
         THEN LET alias(t) ==
                      LET symbol == Last(t.symbols)
                          aliasSymbol == lookUpSymbol(t, t.scopes[scope].parent, name)
                      IN  IF /\ t.scopes[scope].type = "Class"
                             /\ t.scopes[scope].parent # 0
                             /\ aliasSymbol # 0
                          THEN Result(createAssignmentAliasFlowNode(t, symbol, aliasSymbol),
                                      symbol)
                          ELSE Result(t, symbol)
              IN  alias(addSymbol(s, scope, name, {"InitiallyUnbound", "ClassMember"}))
         ELSE Result(s, lookUpSymbol(s, scope, name))
    ELSE Result(s, 0)

RECURSIVE bindPossibleTupleNamedTarget(_, _)
RECURSIVE bindPossibleTupleNamedTargetEach(_, _)
bindPossibleTupleNamedTargetEach(s, targets) ==
    IF targets = <<>> THEN s
    ELSE bindPossibleTupleNamedTargetEach(
             bindPossibleTupleNamedTarget(s, Head(targets)), Tail(targets))
bindPossibleTupleNamedTarget(s, target) ==
    CASE target.t = "Name" -> bindNameToScope(s, s.currentScope, target.value).s
      [] target.t = "Tuple" -> bindPossibleTupleNamedTargetEach(s, target.expressions)
      [] target.t = "TypeAnnotation" ->
            bindPossibleTupleNamedTarget(s, target.valueExpression)
      [] OTHER -> s

\* r is the symbol of that name in the current scope.
addSymbolToCurrentScope(s, nameValue, isInitiallyUnbound) ==
    IF lookUpSymbol(s, s.currentScope, nameValue) = 0
    THEN LET symbolFlags ==
                 (IF isInitiallyUnbound THEN {"InitiallyUnbound"} ELSE {})
                 \cup (IF s.scopes[s.currentScope].type = "Class"
                       THEN {"ClassMember"} ELSE {})
             added(t) == Result(t, Last(t.symbols))
         IN  added(addSymbol(s, s.currentScope, nameValue, symbolFlags))
    ELSE Result(s, lookUpSymbol(s, s.currentScope, nameValue))

addBuiltInSymbolToCurrentScope(s, nameValue, node) ==
    LET declare(t, symbol) ==
            setSymbolFlag(addDeclaration(t, symbol, Last(t.declarations)), symbol,
                          "IgnoredForProtocolMatch")
        intrinsic(added) ==
            declare(newDeclaration(added.s, Declaration("Intrinsic", node, emptyRange)),
                    added.r)
    IN  intrinsic(addSymbolToCurrentScope(s, nameValue, FALSE))

\* _createNewScope up to its callback.  What it restores after the callback
\* is createNewScopeReturn.
createNewScope(s, scopeType, parentScope) ==
    LET isExecutionScope == scopeType \in {"Builtin", "Module", "Function"}
    IN  [s EXCEPT !.scopes = Append(@, Scope(scopeType, parentScope)),
                  !.currentScope = Len(s.scopes) + 1,
                  !.referenceMaps = IF isExecutionScope THEN Append(@, {}) ELSE @,
                  !.currentExecutionScopeReferenceMap =
                      IF isExecutionScope THEN Len(s.referenceMaps) + 1 ELSE @,
                  !.bindingMaps = Append(@, <<>>),
                  !.notLocalBindings = Len(s.bindingMaps) + 1,
                  !.history = Append(@,
                      [e |-> "enterScope", scope |-> Len(s.scopes) + 1,
                       type |-> scopeType,
                       before |-> <<s.currentScope, s.notLocalBindings,
                                    s.currentExecutionScopeReferenceMap>>,
                       maps |-> Len(s.referenceMaps)])]

\* prev is the state in which _createNewScope was called.
\* The end of _createNewScope that leaves the binding map of the scope in place.
createNewScopeReturnBindingsKept(s, prev) ==
    [s EXCEPT !.currentExecutionScopeReferenceMap = prev.currentExecutionScopeReferenceMap,
              !.currentScope = prev.currentScope,
              !.history = Append(@,
                  [e |-> "leaveScope", scope |-> s.currentScope,
                   inside |-> <<s.currentScope, s.notLocalBindings,
                                s.currentExecutionScopeReferenceMap>>,
                   after |-> <<prev.currentScope, s.notLocalBindings,
                               prev.currentExecutionScopeReferenceMap>>,
                   maps |-> Len(s.referenceMaps)])]

createNewScopeReturn(s, prev) ==
    [s EXCEPT !.currentExecutionScopeReferenceMap = prev.currentExecutionScopeReferenceMap,
              !.currentScope = prev.currentScope,
              !.notLocalBindings = prev.notLocalBindings,
              !.history = Append(@,
                  [e |-> "leaveScope", scope |-> s.currentScope,
                   inside |-> <<s.currentScope, s.notLocalBindings,
                                s.currentExecutionScopeReferenceMap>>,
                   after |-> <<prev.currentScope, prev.notLocalBindings,
                               prev.currentExecutionScopeReferenceMap>>,
                   maps |-> Len(s.referenceMaps)])]

\* _getMemberAccessInfo: for `self.x` in a method (or `cls.x` in a class
\* method) the class scope the member lives in; defined is FALSE otherwise.
\* The methods modelled carry no decorators, so `cls` is never recognised.
getMemberAccessInfo(s, node) ==
    LET isInstanceMember(methodNode) ==
            /\ Len(methodNode.parameters) >= 1
            /\ Present(methodNode.parameters[1].name)
            /\ methodNode.parameters[1].name.value = node.leftExpression.value
        info(methodNode, classNode) ==
            IF /\ node.leftExpression.t = "Name"
               /\ Present(methodNode)
               /\ Present(classNode)
               /\ isInstanceMember(methodNode)
            THEN [defined |-> TRUE, classNode |-> classNode, methodNode |-> methodNode,
                  classScope |-> getScope(s, classNode), isInstanceMember |-> TRUE]
            ELSE [defined |-> FALSE, classNode |-> None, methodNode |-> None,
                  classScope |-> 0, isInstanceMember |-> FALSE]
        inMethod(methodNode) ==
            info(methodNode,
                 IF Present(methodNode) THEN getEnclosingClass(s, methodNode, FALSE)
                 ELSE None)
    IN  inMethod(getEnclosingFunction(s, node))

RECURSIVE addInferredTypeAssignmentForVariable(_, _, _)
RECURSIVE addInferredTypeAssignmentForVariableEach(_, _, _)
addInferredTypeAssignmentForVariableEach(s, targets, source) ==
    IF targets = <<>> THEN s
    ELSE addInferredTypeAssignmentForVariableEach(
             addInferredTypeAssignmentForVariable(s, Head(targets), source),
             Tail(targets), source)
addInferredTypeAssignmentForVariable(s, target, source) ==
    CASE target.t = "Name" ->
            LET add(t, symbol) == addDeclaration(t, symbol, Last(t.declarations))
                declare(symbolWithScope) ==
                    IF symbolWithScope.symbol # 0
                    THEN add(newDeclaration(s,
                                 [Declaration("Variable", target,
                                              convertOffsetsToRange(target))
                                     EXCEPT !.inferredTypeSource = source.id]),
                             symbolWithScope.symbol)
                    ELSE s
            IN  declare(lookUpSymbolRecursive(s, s.currentScope, target.value))
      [] target.t = "MemberAccess" ->
            LET name == target.memberName
                member(t, classScope) ==
                    IF lookUpSymbol(t, classScope, name.value) = 0
                    THEN addSymbol(t, classScope, name.value, {"InitiallyUnbound"})
                    ELSE t
                flag(t, symbol) ==
                    IF \/ "ClassMember" \notin t.symbols[symbol].flags
                       \/ ~\E i \in DOMAIN t.symbols[symbol].declarations :
                             LET decl == t.declarations[t.symbols[symbol].declarations[i]]
                             IN  decl.type = "Function" /\ decl.isMethod
                    THEN setSymbolFlag(t, symbol, "InstanceMember")
                    ELSE t
                add(t, symbol) == addDeclaration(t, symbol, Last(t.declarations))
                declare(t, symbol) ==
                    add(newDeclaration(flag(t, symbol),
                            [Declaration("Variable", name, convertOffsetsToRange(name))
                                EXCEPT !.inferredTypeSource = source.id]),
                        symbol)
                bound(t, classScope) == declare(t, lookUpSymbol(t, classScope, name.value))
                infer(memberAccessInfo) ==
                    IF memberAccessInfo.defined
                    THEN bound(member(s, memberAccessInfo.classScope),
                               memberAccessInfo.classScope)
                    ELSE s
            IN  infer(getMemberAccessInfo(s, target))
      [] target.t = "Tuple" ->
            addInferredTypeAssignmentForVariableEach(s, target.expressions, source)
      [] target.t = "TypeAnnotation" ->
            addInferredTypeAssignmentForVariable(s, target.valueExpression, source)
      [] OTHER -> s

deferBinding(s, callback) ==
    [s EXCEPT !.deferredBindingTasks = Append(@,
                  [scope |-> s.currentScope, nonLocalBindingsMap |-> s.notLocalBindings,
                   codeFlowExpressionMap |-> s.currentExecutionScopeReferenceMap,
                   callback |-> callback]),
              !.history = Append(@, [e |-> "defer", node |-> callback.node.id,
                                     scope |-> s.currentScope,
                                     nonLocalBindingsMap |-> s.notLocalBindings,
                                     codeFlowExpressionMap |->
                                         s.currentExecutionScopeReferenceMap,
                                     breakTarget |-> s.currentBreakTarget,
                                     exceptTargets |-> s.currentExceptTargets,
                                     finallyTargets |-> s.finallyTargets])]

(***************************************************************************)
(* The visitors.  Each is the visit method of that name; when the method   *)
(* returns true the walker goes on to the node's children (see walk).      *)
(***************************************************************************)
\* The round without the search for a yield in an unreachable statement.
walkStatementAndReportUnreachableNoYieldFinder(s, statement, foundUnreachable) ==
    LET found == foundUnreachable \/ isCodeUnreachable(s)
        step(t) == IF ~found THEN walk(t, statement) ELSE t
        round(t) ==
            Result([t EXCEPT !.history = Append(@,
                        [e |-> "statement", node |-> statement.id, walked |-> ~found,
                         after |-> t.currentFlowNode])],
                   found)
    IN  round(step(setFlowNode(s, statement, s.currentFlowNode)))

\* One round of the loop of _walkStatementsAndReportUnreachable; r is the
\* local foundUnreachableStatement after it.
walkStatementAndReportUnreachable(s, statement, foundUnreachable) ==
    LET found == foundUnreachable \/ isCodeUnreachable(s)
        step(t, containsYield) ==
            LET target == t.targetFunctionDeclaration
            IN  IF ~found THEN walk(t, statement)
                ELSE IF /\ target # 0
                        /\ ~t.declarations[target].isGenerator
                        /\ containsYield
                THEN [t EXCEPT !.declarations[target].isGenerator = TRUE]
                ELSE t
        round(t) ==
            Result([t EXCEPT !.history = Append(@,
                        [e |-> "statement", node |-> statement.id, walked |-> ~found,
                         after |-> t.currentFlowNode])],
                   found)
    IN  round(step(setFlowNode(s, statement, s.currentFlowNode),
                   checkContainsYield(statement)))

RECURSIVE walkStatementsAndReportUnreachableFrom(_, _, _, _)
walkStatementsAndReportUnreachableFrom(s, statements, i, foundUnreachable) ==
    IF i > Len(statements) THEN s
    ELSE LET next(round) ==
                 walkStatementsAndReportUnreachableFrom(round.s, statements, i + 1,
                                                        round.r)
         IN  next(walkStatementAndReportUnreachable(s, statements[i], foundUnreachable))

walkStatementsAndReportUnreachable(s, statements) ==
    walkStatementsAndReportUnreachableFrom(s, statements, 1, FALSE)

visitSuite(s, node) == walkStatementsAndReportUnreachable(s, node.statements)

visitCall(s, node) ==
    createCallFlowNode(walkMultiple(walk(s, node.leftExpression), node.arguments), node)

visitAssignment(s, node) ==
    createAssignmentTargetFlowNodes(
        addInferredTypeAssignmentForVariable(
            walk(bindPossibleTupleNamedTarget(s, node.leftExpression),
                 node.rightExpression),
            node.leftExpression, node.rightExpression),
        node.leftExpression, TRUE, FALSE)

\* visitAssignmentExpression that binds the name in the current scope.
visitAssignmentExpressionBindsHere(s, node) ==
    LET \* the scopes from the current one up to the container, exclusive
        check(t, containerScope) ==
            LET collides[curScope \in 0..Len(t.scopes)] ==
                    IF curScope = 0 \/ curScope = containerScope THEN FALSE
                    ELSE IF lookUpSymbol(t, curScope, node.name.value) # 0 THEN TRUE
                    ELSE collides[t.scopes[curScope].parent]
            IN  IF collides[t.currentScope]
                THEN addError(t, "assignmentExprComprehension", node.name) ELSE t
        bind(t, evaluationNode) ==
            IF ~Present(evaluationNode)
            THEN addError(t, "assignmentExprContext", node)
            ELSE addInferredTypeAssignmentForVariable(
                     bindNameToScope(check(t, getScope(t, evaluationNode)),
                                     t.currentScope, node.name.value).s,
                     node.name, node.rightExpression)
        inContext(t) == bind(t, getEvaluationNodeForAssignmentExpression(t, node))
    IN  createAssignmentTargetFlowNodes(inContext(walk(s, node.rightExpression)),
                                        node.name, TRUE, FALSE)

visitAssignmentExpression(s, node) ==
    LET \* the scopes from the current one up to the container, exclusive
        check(t, containerScope) ==
            LET collides[curScope \in 0..Len(t.scopes)] ==
                    IF curScope = 0 \/ curScope = containerScope THEN FALSE
                    ELSE IF lookUpSymbol(t, curScope, node.name.value) # 0 THEN TRUE
                    ELSE collides[t.scopes[curScope].parent]
            IN  IF collides[t.currentScope]
                THEN addError(t, "assignmentExprComprehension", node.name) ELSE t
        bind(t, evaluationNode) ==
            IF ~Present(evaluationNode)
            THEN addError(t, "assignmentExprContext", node)
            ELSE addInferredTypeAssignmentForVariable(
                     bindNameToScope(check(t, getScope(t, evaluationNode)),
                                     getScope(t, evaluationNode), node.name.value).s,
                     node.name, node.rightExpression)
        inContext(t) == bind(t, getEvaluationNodeForAssignmentExpression(t, node))
    IN  createAssignmentTargetFlowNodes(inContext(walk(s, node.rightExpression)),
                                        node.name, TRUE, FALSE)

visitAugmentedAssignment(s, node) ==
    createAssignmentTargetFlowNodes(
        bindPossibleTupleNamedTarget(
            addInferredTypeAssignmentForVariable(
                walk(walk(s, node.leftExpression), node.rightExpression),
                node.destExpression, node.rightExpression),
            node.destExpression),
        node.destExpression, FALSE, FALSE)

RECURSIVE visitDelFrom(_, _, _)
visitDelFrom(s, node, i) ==
    IF i > Len(node.expressions) THEN s
    ELSE visitDelFrom(
             createAssignmentTargetFlowNodes(
                 walk(bindPossibleTupleNamedTarget(s, node.expressions[i]),
                      node.expressions[i]),
                 node.expressions[i], FALSE, TRUE),
             node, i + 1)
visitDel(s, node) == visitDelFrom(s, node, 1)

\* _addTypeDeclarationForVariable.  The annotations modelled are plain
\* names: none is Final, TypeAlias or ClassVar.
addTypeDeclarationForVariable(s, target, typeAnnotation) ==
    LET add(t, symbol) == addDeclaration(t, symbol, Last(t.declarations))
        variable(t, name, symbol) ==
            add(newDeclaration(t, Declaration("Variable", name,
                                              convertOffsetsToRange(name))),
                symbol)
    IN  CASE target.t = "Name" ->
                LET declare(symbolWithScope) ==
                        IF symbolWithScope.symbol # 0
                        THEN setSymbolFlag(variable(s, target, symbolWithScope.symbol),
                                           symbolWithScope.symbol, "InstanceMember")
                        ELSE s
                IN  declare(lookUpSymbolRecursive(s, s.currentScope, target.value))
          [] target.t = "MemberAccess" ->
                LET name == target.memberName
                    member(t, classScope) ==
                        IF lookUpSymbol(t, classScope, name.value) = 0
                        THEN addSymbol(t, classScope, name.value, {"InitiallyUnbound"})
                        ELSE t
                    declare(t, symbol) ==
                        variable(setSymbolFlag(t, symbol, "InstanceMember"), name, symbol)
                    bound(t, classScope) ==
                        declare(t, lookUpSymbol(t, classScope, name.value))
                    annotate(memberAccessInfo) ==
                        IF memberAccessInfo.defined
                        THEN bound(member(s, memberAccessInfo.classScope),
                                   memberAccessInfo.classScope)
                        ELSE addError(s, "annotationNotSupported", typeAnnotation)
                IN  annotate(getMemberAccessInfo(s, target))
          [] OTHER -> addError(s, "annotationNotSupported", typeAnnotation)

visitTypeAnnotation(s, node) ==
    LET register(t, narrowing) ==
            IF narrowing.r THEN registerReferenceKeys(t, narrowing.list) ELSE t
    IN  register(addTypeDeclarationForVariable(
                     bindPossibleTupleNamedTarget(s, node.valueExpression),
                     node.valueExpression, node.typeAnnotation),
                 isNarrowingExpression(node.valueExpression, <<>>))

visitContinue(s, node) ==
    [(IF s.currentContinueTarget # 0
      THEN addAntecedent(s, s.currentContinueTarget, s.currentFlowNode) ELSE s)
        EXCEPT !.currentFlowNode = unreachableFlowNode,
               !.history = Append(@, [e |-> "continue", node |-> node.id,
                                      flow |-> s.currentFlowNode,
                                      target |-> s.currentContinueTarget])]

visitBreak(s, node) ==
    [(IF s.currentBreakTarget # 0
      THEN addAntecedent(s, s.currentBreakTarget, s.currentFlowNode) ELSE s)
        EXCEPT !.currentFlowNode = unreachableFlowNode,
               !.history = Append(@, [e |-> "break", node |-> node.id,
                                      flow |-> s.currentFlowNode,
                                      target |-> s.currentBreakTarget])]

\* visitReturn without its last assignment: the flow goes on after a return.
visitReturnFlowGoesOn(s, node) ==
    LET record(t) ==
            LET target == t.targetFunctionDeclaration
            IN  IF target # 0
                THEN [t EXCEPT !.declarations[target].returnStatements =
                                   Append(@, node.id)]
                ELSE t
        returnExpression(t) ==
            IF Present(node.returnExpression) THEN walk(t, node.returnExpression) ELSE t
        attach(t) == setFlowNode(t, node, t.currentFlowNode)
        toReturnTarget(t) ==
            IF t.currentReturnTarget # 0
            THEN addAntecedentOfCurrent(t, t.currentReturnTarget) ELSE t
        toFinallyTargets(t) == addAntecedentToEach(t, t.finallyTargets, t.currentFlowNode)
    IN  toFinallyTargets(toReturnTarget(attach(returnExpression(record(s)))))

\* visitReturn that adds the flow to the innermost finally target only.
visitReturnInnermostFinally(s, node) ==
    LET record(t) ==
            LET target == t.targetFunctionDeclaration
            IN  IF target # 0
                THEN [t EXCEPT !.declarations[target].returnStatements =
                                   Append(@, node.id)]
                ELSE t
        returnExpression(t) ==
            IF Present(node.returnExpression) THEN walk(t, node.returnExpression) ELSE t
        attach(t) == setFlowNode(t, node, t.currentFlowNode)
        toReturnTarget(t) ==
            IF t.currentReturnTarget # 0
            THEN addAntecedentOfCurrent(t, t.currentReturnTarget) ELSE t
        toFinallyTargets(t) ==
            IF t.finallyTargets = <<>> THEN t
            ELSE addAntecedentOfCurrent(t, t.finallyTargets[Len(t.finallyTargets)])
    IN  setCurrentFlowNode(
            toFinallyTargets(toReturnTarget(attach(returnExpression(record(s))))),
            unreachableFlowNode)

visitReturn(s, node) ==
    LET record(t) ==
            LET target == t.targetFunctionDeclaration
            IN  IF target # 0
                THEN [t EXCEPT !.declarations[target].returnStatements =
                                   Append(@, node.id)]
                ELSE t
        returnExpression(t) ==
            IF Present(node.returnExpression) THEN walk(t, node.returnExpression) ELSE t
        attach(t) == setFlowNode(t, node, t.currentFlowNode)
        toReturnTarget(t) ==
            IF t.currentReturnTarget # 0
            THEN addAntecedentOfCurrent(t, t.currentReturnTarget) ELSE t
        toFinallyTargets(t) == addAntecedentToEach(t, t.finallyTargets, t.currentFlowNode)
    IN  setCurrentFlowNode(
            toFinallyTargets(toReturnTarget(attach(returnExpression(record(s))))),
            unreachableFlowNode)

bindYield(s, node) ==
    LET report(functionNode) ==
            IF ~Present(functionNode) THEN addError(s, "yieldOutsideFunction", node)
            ELSE IF functionNode.isAsync /\ node.t = "YieldFrom"
            THEN addError(s, "yieldFromOutsideAsync", node)
            ELSE s
        record(t) ==
            LET target == t.targetFunctionDeclaration
            IN  IF target # 0
                THEN [t EXCEPT !.declarations[target].yieldStatements = Append(@, node.id),
                               !.declarations[target].isGenerator = TRUE]
                ELSE t
        expression(t) == IF Present(node.expression) THEN walk(t, node.expression) ELSE t
        attach(t) == setFlowNode(t, node, t.currentFlowNode)
    IN  attach(expression(record(report(getEnclosingFunction(s, node)))))

visitYield(s, node) == bindYield(s, node)

visitYieldFrom(s, node) == bindYield(s, node)

visitMemberAccess(s, node) == setFlowNode(s, node, s.currentFlowNode)

visitName(s, node) == setFlowNode(s, node, s.currentFlowNode)

\* visitIf that does not add the end of the if suite to the label after the
\* statement.
visitIfThenEndNowhere(s, node) ==
    LET s1 == createBranchLabel(s)
        thenLabel == Last(s1.flowNodes)
        s2 == createBranchLabel(s1)
        elseLabel == Last(s2.flowNodes)
        s3 == createBranchLabel(s2)
        postIfLabel == Last(s3.flowNodes)
        toThen(t, constExprValue) ==
            setCurrentFlowNode(t, IF constExprValue = "false" THEN unreachableFlowNode
                                  ELSE finishFlowLabel(t, thenLabel))
        thenWalked(t, u) ==
            [u EXCEPT !.history = Append(@,
                [e |-> "ifThen", node |-> node.id, entry |-> t.currentFlowNode,
                 end |-> u.currentFlowNode])]
        ifSuite(t) ==
            thenWalked(t, walk(t, node.ifSuite))
        toElse(t, constExprValue) ==
            setCurrentFlowNode(t, IF constExprValue = "true" THEN unreachableFlowNode
                                  ELSE finishFlowLabel(t, elseLabel))
        elseWalked(t, u) ==
            [u EXCEPT !.history = Append(@,
                [e |-> "if", node |-> node.id, postIf |-> postIfLabel,
                 elseEntry |-> t.currentFlowNode, elseEnd |-> u.currentFlowNode,
                 after |-> finishFlowLabel(addAntecedentOfCurrent(u, postIfLabel),
                                           postIfLabel)])]
        elseSuite(t) ==
            addAntecedentOfCurrent(
                elseWalked(t, IF Present(node.elseSuite)
                              THEN walk(t, node.elseSuite) ELSE t),
                postIfLabel)
    IN  finishFlowLabelAsCurrent(
            elseSuite(toElse(
                ifSuite(toThen(
                    bindConditional(s3, node.testExpression, thenLabel, elseLabel),
                    evaluateStaticBoolLikeExpression(node.testExpression))),
                evaluateStaticBoolLikeExpression(node.testExpression))),
            postIfLabel)

visitIf(s, node) ==
    LET s1 == createBranchLabel(s)
        thenLabel == Last(s1.flowNodes)
        s2 == createBranchLabel(s1)
        elseLabel == Last(s2.flowNodes)
        s3 == createBranchLabel(s2)
        postIfLabel == Last(s3.flowNodes)
        toThen(t, constExprValue) ==
            setCurrentFlowNode(t, IF constExprValue = "false" THEN unreachableFlowNode
                                  ELSE finishFlowLabel(t, thenLabel))
        thenWalked(t, u) ==
            [u EXCEPT !.history = Append(@,
                [e |-> "ifThen", node |-> node.id, entry |-> t.currentFlowNode,
                 end |-> u.currentFlowNode])]
        ifSuite(t) ==
            addAntecedentOfCurrent(thenWalked(t, walk(t, node.ifSuite)), postIfLabel)
        toElse(t, constExprValue) ==
            setCurrentFlowNode(t, IF constExprValue = "true" THEN unreachableFlowNode
                                  ELSE finishFlowLabel(t, elseLabel))
        elseWalked(t, u) ==
            [u EXCEPT !.history = Append(@,
                [e |-> "if", node |-> node.id, postIf |-> postIfLabel,
                 elseEntry |-> t.currentFlowNode, elseEnd |-> u.currentFlowNode,
                 after |-> finishFlowLabel(addAntecedentOfCurrent(u, postIfLabel),
                                           postIfLabel)])]
        elseSuite(t) ==
            addAntecedentOfCurrent(
                elseWalked(t, IF Present(node.elseSuite)
                              THEN walk(t, node.elseSuite) ELSE t),
                postIfLabel)
    IN  finishFlowLabelAsCurrent(
            elseSuite(toElse(
                ifSuite(toThen(
                    bindConditional(s3, node.testExpression, thenLabel, elseLabel),
                    evaluateStaticBoolLikeExpression(node.testExpression))),
                evaluateStaticBoolLikeExpression(node.testExpression))),
            postIfLabel)

\* visitWhile that takes a statically true test for a false one and a false
\* one for a true one.
visitWhileStaticTestInverted(s, node) ==
    LET s1 == createBranchLabel(s)
        thenLabel == Last(s1.flowNodes)
        s2 == createBranchLabel(s1)
        elseLabel == Last(s2.flowNodes)
        s3 == createBranchLabel(s2)
        postWhileLabel == Last(s3.flowNodes)
        s4 == createLoopLabel(s3)
        preLoopLabel == Last(s4.flowNodes)
        s5 == setCurrentFlowNode(addAntecedentOfCurrent(s4, preLoopLabel), preLoopLabel)
        toThen(t, constExprValue) ==
            setCurrentFlowNode(t, IF constExprValue = "true" THEN unreachableFlowNode
                                  ELSE finishFlowLabel(t, thenLabel))
        bodyWalked(t, u) ==
            [u EXCEPT !.history = Append(@,
                [e |-> "whileBody", node |-> node.id, entry |-> t.currentFlowNode,
                 end |-> u.currentFlowNode])]
        whileSuite(t) ==
            addAntecedentOfCurrent(
                bindLoopStatementReturn(
                    bodyWalked(t, walk(bindLoopStatement(t, preLoopLabel, postWhileLabel),
                                       node.whileSuite)),
                    t),
                preLoopLabel)
        toElse(t, constExprValue) ==
            setCurrentFlowNode(t, IF constExprValue = "false" THEN unreachableFlowNode
                                  ELSE finishFlowLabel(t, elseLabel))
        elseWalked(t, u) ==
            [u EXCEPT !.history = Append(@,
                [e |-> "while", node |-> node.id, preLoop |-> preLoopLabel,
                 postWhile |-> postWhileLabel, elseEntry |-> t.currentFlowNode,
                 elseEnd |-> u.currentFlowNode,
                 after |-> finishFlowLabel(addAntecedentOfCurrent(u, postWhileLabel),
                                           postWhileLabel)])]
        elseSuite(t) ==
            addAntecedentOfCurrent(
                elseWalked(t, IF Present(node.elseSuite)
                              THEN walk(t, node.elseSuite) ELSE t),
                postWhileLabel)
    IN  finishFlowLabelAsCurrent(
            elseSuite(toElse(
                whileSuite(toThen(
                    bindConditional(s5, node.testExpression, thenLabel, elseLabel),
                    evaluateStaticBoolLikeExpression(node.testExpression))),
                evaluateStaticBoolLikeExpression(node.testExpression))),
            postWhileLabel)

visitWhile(s, node) ==
    LET s1 == createBranchLabel(s)
        thenLabel == Last(s1.flowNodes)
        s2 == createBranchLabel(s1)
        elseLabel == Last(s2.flowNodes)
        s3 == createBranchLabel(s2)
        postWhileLabel == Last(s3.flowNodes)
        s4 == createLoopLabel(s3)
        preLoopLabel == Last(s4.flowNodes)
        s5 == setCurrentFlowNode(addAntecedentOfCurrent(s4, preLoopLabel), preLoopLabel)
        toThen(t, constExprValue) ==
            setCurrentFlowNode(t, IF constExprValue = "false" THEN unreachableFlowNode
                                  ELSE finishFlowLabel(t, thenLabel))
        bodyWalked(t, u) ==
            [u EXCEPT !.history = Append(@,
                [e |-> "whileBody", node |-> node.id, entry |-> t.currentFlowNode,
                 end |-> u.currentFlowNode])]
        whileSuite(t) ==
            addAntecedentOfCurrent(
                bindLoopStatementReturn(
                    bodyWalked(t, walk(bindLoopStatement(t, preLoopLabel, postWhileLabel),
                                       node.whileSuite)),
                    t),
                preLoopLabel)
        toElse(t, constExprValue) ==
            setCurrentFlowNode(t, IF constExprValue = "true" THEN unreachableFlowNode
                                  ELSE finishFlowLabel(t, elseLabel))
        elseWalked(t, u) ==
            [u EXCEPT !.history = Append(@,
                [e |-> "while", node |-> node.id, preLoop |-> preLoopLabel,
                 postWhile |-> postWhileLabel, elseEntry |-> t.currentFlowNode,
                 elseEnd |-> u.currentFlowNode,
                 after |-> finishFlowLabel(addAntecedentOfCurrent(u, postWhileLabel),
                                           postWhileLabel)])]
        elseSuite(t) ==
            addAntecedentOfCurrent(
                elseWalked(t, IF Present(node.elseSuite)
                              THEN walk(t, node.elseSuite) ELSE t),
                postWhileLabel)
    IN  finishFlowLabelAsCurrent(
            elseSuite(toElse(
                whileSuite(toThen(
                    bindConditional(s5, node.testExpression, thenLabel, elseLabel),
                    evaluateStaticBoolLikeExpression(node.testExpression))),
                evaluateStaticBoolLikeExpression(node.testExpression))),
            postWhileLabel)

visitFor(s, node) ==
    LET loop(t) ==
            LET t1 == createLoopLabel(t)
                preForLabel == Last(t1.flowNodes)
                t2 == createBranchLabel(t1)
                preElseLabel == Last(t2.flowNodes)
                t3 == createBranchLabel(t2)
                postForLabel == Last(t3.flowNodes)
                t4 == setCurrentFlowNode(addAntecedentOfCurrent(t3, preForLabel),
                                         preForLabel)
                bodyWalked(v) ==
                    [v EXCEPT !.history = Append(@,
                        [e |-> "forBody", node |-> node.id, end |-> v.currentFlowNode])]
                forSuite(u) ==
                    bindLoopStatementReturn(
                        addAntecedentOfCurrent(
                            bodyWalked(walk(bindLoopStatement(u, preForLabel, postForLabel),
                                            node.forSuite)),
                            preForLabel),
                        u)
                elseWalked(u, v) ==
                    [v EXCEPT !.history = Append(@,
                        [e |-> "for", node |-> node.id, preFor |-> preForLabel,
                         preElse |-> preElseLabel, postFor |-> postForLabel,
                         header |-> t.currentFlowNode,
                         elseEntry |-> u.currentFlowNode, elseEnd |-> v.currentFlowNode,
                         targets |-> <<t.currentContinueTarget, t.currentBreakTarget>>,
                         restored |-> <<u.currentContinueTarget, u.currentBreakTarget>>])]
                elseSuite(u) ==
                    addAntecedentOfCurrent(
                        elseWalked(u, IF Present(node.elseSuite)
                                      THEN walk(u, node.elseSuite) ELSE u),
                        postForLabel)
            IN  finishFlowLabelAsCurrent(
                    elseSuite(finishFlowLabelAsCurrent(
                        forSuite(createAssignmentTargetFlowNodes(
                            addAntecedentOfCurrent(t4, preElseLabel),
                            node.targetExpression, TRUE, FALSE)),
                        preElseLabel)),
                    postForLabel)
    IN  loop(walk(addInferredTypeAssignmentForVariable(
                      bindPossibleTupleNamedTarget(s, node.targetExpression),
                      node.targetExpression, node),
                  node.iterableExpression))

visitAssert(s, node) ==
    LET s1 == createBranchLabel(s)
        assertTrueLabel == Last(s1.flowNodes)
        s2 == createBranchLabel(s1)
        assertFalseLabel == Last(s2.flowNodes)
        exceptionExpression(t) ==
            IF Present(node.exceptionExpression)
            THEN walk(finishFlowLabelAsCurrent(t, assertFalseLabel),
                      node.exceptionExpression)
            ELSE t
    IN  finishFlowLabelAsCurrent(
            exceptionExpression(
                bindConditional(s2, node.testExpression, assertTrueLabel,
                                assertFalseLabel)),
            assertTrueLabel)

visitExcept(s, node) ==
    LET typeExpression(t) ==
            IF Present(node.typeExpression) THEN walk(t, node.typeExpression) ELSE t
        add(t, symbol) == addDeclaration(t, symbol, Last(t.declarations))
        declare(t, symbol) ==
            IF symbol # 0
            THEN add(newDeclaration(t,
                         [Declaration("Variable", node.name,
                                      convertOffsetsToRange(node.name))
                             EXCEPT !.inferredTypeSource = node.id]),
                     symbol)
            ELSE t
        target(bound) ==
            declare(createAssignmentTargetFlowNodes(bound.s, node.name, TRUE, FALSE),
                    bound.r)
        bind(t) == bindNameToScope(t, t.currentScope, node.name.value)
        logged(t0, t) ==
            [t EXCEPT !.history = Append(@,
                [e |-> "except", node |-> node.id, entry |-> t0.currentFlowNode,
                 first |-> Len(t0.flowNodes), end |-> t.currentFlowNode,
                 last |-> Len(t.flowNodes)])]
        named(t0) ==
            createFlowAssignment(
                logged(t0, walk(target(bind(walk(t0, node.name))), node.exceptSuite)),
                node.name, TRUE)
    IN  IF Present(node.name)
        THEN named(typeExpression(s))
        ELSE walk(typeExpression(s), node.exceptSuite)

visitRaise(s, node) ==
    LET record(t) ==
            LET target == t.targetFunctionDeclaration
            IN  IF target # 0
                THEN [t EXCEPT !.declarations[target].raiseStatements = Append(@, node.id)]
                ELSE t
        report(t) ==
            IF ~Present(node.typeExpression) /\ t.nestedExceptDepth = 0
            THEN addError(t, "raiseParams", node) ELSE t
        typeExpression(t) ==
            IF Present(node.typeExpression) THEN walk(t, node.typeExpression) ELSE t
        toFinallyTargets(t) ==
            addAntecedentToEach(
                [t EXCEPT !.history = Append(@, [e |-> "raise", node |-> node.id,
                                                 flow |-> t.currentFlowNode])],
                t.finallyTargets, t.currentFlowNode)
    IN  setCurrentFlowNode(toFinallyTargets(typeExpression(report(record(s)))),
                           unreachableFlowNode)

RECURSIVE createBranchLabels(_, _)
createBranchLabels(s, count) ==
    IF count = 0 THEN s ELSE createBranchLabels(createBranchLabel(s), count - 1)

\* The loop of visitTry over the except clauses; r is the local
\* isAfterElseAndExceptsReachable after it.
RECURSIVE visitTryExceptClauses(_, _, _, _, _, _)
visitTryExceptClauses(s, node, curExceptTargets, preFinallyLabel, index,
                      isAfterElseAndExceptsReachable) ==
    IF index > Len(node.exceptClauses) THEN Result(s, isAfterElseAndExceptsReachable)
    ELSE LET next(t) ==
                 visitTryExceptClauses(
                     t, node, curExceptTargets, preFinallyLabel, index + 1,
                     isAfterElseAndExceptsReachable \/ ~isCodeUnreachable(t))
         IN  next(addAntecedentOfCurrent(
                      walk(finishFlowLabelAsCurrent(s, curExceptTargets[index]),
                           node.exceptClauses[index]),
                      preFinallyLabel))

\* visitTry that goes on from the PostFinally node in every case.
visitTryAlwaysPostFinally(s, node) ==
    LET count == Len(node.exceptClauses)
        s1 == createBranchLabels(s, count)
        curExceptTargets == [i \in 1..count |-> Len(s.flowNodes) + i]
        s2 == createBranchLabel(s1)
        preFinallyLabel == Last(s2.flowNodes)
        s3 == createBranchLabel(s2)
        preFinallyReturnOrRaiseLabel == Last(s3.flowNodes)
        s4 == [s3 EXCEPT !.flowNodes = Append(@,
                  [FlowNode({"PreFinallyGate"})
                      EXCEPT !.antecedent = preFinallyReturnOrRaiseLabel])]
        preFinallyGate == Last(s4.flowNodes)
        gate(t) ==
            IF Present(node.finallySuite)
            THEN addAntecedent(t, preFinallyLabel, preFinallyGate) ELSE t
        toExceptTargets(t) == addAntecedentToEach(t, curExceptTargets, t.currentFlowNode)
        pushFinallyTarget(t) ==
            IF Present(node.finallySuite)
            THEN [t EXCEPT !.finallyTargets = Append(@, preFinallyReturnOrRaiseLabel)]
            ELSE t
        tried(u, t) ==
            [u EXCEPT !.currentExceptTargets = t.currentExceptTargets,
                      !.history = Append(@,
                          [e |-> "tryBody", node |-> node.id,
                           before |-> s.currentFlowNode, gate |-> preFinallyGate,
                           preFinallyLabel |-> preFinallyLabel,
                           returnOrRaiseLabel |-> preFinallyReturnOrRaiseLabel,
                           exceptLabels |-> curExceptTargets,
                           first |-> Len(t.flowNodes) + 1,
                           last |-> Len(u.flowNodes)])]
        trySuite(t) ==
            tried(walk([t EXCEPT !.currentExceptTargets =
                                     ExceptTargets(curExceptTargets)],
                       node.trySuite),
                  t)
        elseSuite(t) ==
            addAntecedentOfCurrent(
                IF Present(node.elseSuite) THEN walk(t, node.elseSuite) ELSE t,
                preFinallyLabel)
        exceptClauses(t) ==
            visitTryExceptClauses(
                [t EXCEPT !.nestedExceptDepth = @ + 1], node, curExceptTargets,
                preFinallyLabel, 1, ~isCodeUnreachable(t))
        popFinallyTarget(t) ==
            IF Present(node.finallySuite)
            THEN [t EXCEPT !.finallyTargets = SubSeq(@, 1, Len(@) - 1)]
            ELSE t
        create(t) ==
            [t EXCEPT !.flowNodes = Append(@,
                [FlowNode({"PostFinally"})
                    EXCEPT !.antecedent = t.currentFlowNode,
                           !.preFinallyGate = preFinallyGate])]
        leave(t, isAfterElseAndExceptsReachable) ==
            LET postFinallyNode == Last(t.flowNodes)
            IN  setCurrentFlowNode(t, postFinallyNode)
        finallySuite(t, isAfterElseAndExceptsReachable) ==
            IF Present(node.finallySuite)
            THEN leave(create(walk(t, node.finallySuite)),
                       isAfterElseAndExceptsReachable)
            ELSE t
        finally(clauses) ==
            finallySuite(
                finishFlowLabelAsCurrent(
                    popFinallyTarget([clauses.s EXCEPT !.nestedExceptDepth = @ - 1]),
                    preFinallyLabel),
                clauses.r)
    IN  finally(exceptClauses(elseSuite(trySuite(pushFinallyTarget(
            toExceptTargets(gate(s4)))))))

\* visitTry that leaves its label on the stack of finally targets.
visitTryFinallyTargetKept(s, node) ==
    LET count == Len(node.exceptClauses)
        s1 == createBranchLabels(s, count)
        curExceptTargets == [i \in 1..count |-> Len(s.flowNodes) + i]
        s2 == createBranchLabel(s1)
        preFinallyLabel == Last(s2.flowNodes)
        s3 == createBranchLabel(s2)
        preFinallyReturnOrRaiseLabel == Last(s3.flowNodes)
        s4 == [s3 EXCEPT !.flowNodes = Append(@,
                  [FlowNode({"PreFinallyGate"})
                      EXCEPT !.antecedent = preFinallyReturnOrRaiseLabel])]
        preFinallyGate == Last(s4.flowNodes)
        gate(t) ==
            IF Present(node.finallySuite)
            THEN addAntecedent(t, preFinallyLabel, preFinallyGate) ELSE t
        toExceptTargets(t) == addAntecedentToEach(t, curExceptTargets, t.currentFlowNode)
        pushFinallyTarget(t) ==
            IF Present(node.finallySuite)
            THEN [t EXCEPT !.finallyTargets = Append(@, preFinallyReturnOrRaiseLabel)]
            ELSE t
        tried(u, t) ==
            [u EXCEPT !.currentExceptTargets = t.currentExceptTargets,
                      !.history = Append(@,
                          [e |-> "tryBody", node |-> node.id,
                           before |-> s.currentFlowNode, gate |-> preFinallyGate,
                           preFinallyLabel |-> preFinallyLabel,
                           returnOrRaiseLabel |-> preFinallyReturnOrRaiseLabel,
                           exceptLabels |-> curExceptTargets,
                           first |-> Len(t.flowNodes) + 1,
                           last |-> Len(u.flowNodes)])]
        trySuite(t) ==
            tried(walk([t EXCEPT !.currentExceptTargets =
                                     ExceptTargets(curExceptTargets)],
                       node.trySuite),
                  t)
        elseSuite(t) ==
            addAntecedentOfCurrent(
                IF Present(node.elseSuite) THEN walk(t, node.elseSuite) ELSE t,
                preFinallyLabel)
        exceptClauses(t) ==
            visitTryExceptClauses(
                [t EXCEPT !.nestedExceptDepth = @ + 1], node, curExceptTargets,
                preFinallyLabel, 1, ~isCodeUnreachable(t))
        popFinallyTarget(t) == t
        create(t) ==
            [t EXCEPT !.flowNodes = Append(@,
                [FlowNode({"PostFinally"})
                    EXCEPT !.antecedent = t.currentFlowNode,
                           !.preFinallyGate = preFinallyGate])]
        leave(t, isAfterElseAndExceptsReachable) ==
            LET postFinallyNode == Last(t.flowNodes)
            IN  setCurrentFlowNode(t, IF isAfterElseAndExceptsReachable
                                      THEN postFinallyNode
                                      ELSE unreachableFlowNode)
        finallySuite(t, isAfterElseAndExceptsReachable) ==
            IF Present(node.finallySuite)
            THEN leave(create(walk(t, node.finallySuite)),
                       isAfterElseAndExceptsReachable)
            ELSE t
        finally(clauses) ==
            finallySuite(
                finishFlowLabelAsCurrent(
                    popFinallyTarget([clauses.s EXCEPT !.nestedExceptDepth = @ - 1]),
                    preFinallyLabel),
                clauses.r)
    IN  finally(exceptClauses(elseSuite(trySuite(pushFinallyTarget(
            toExceptTargets(gate(s4)))))))

\* visitTry that does not make the gate an antecedent of the pre-finally label.
visitTryGateNotConnected(s, node) ==
    LET count == Len(node.exceptClauses)
        s1 == createBranchLabels(s, count)
        curExceptTargets == [i \in 1..count |-> Len(s.flowNodes) + i]
        s2 == createBranchLabel(s1)
        preFinallyLabel == Last(s2.flowNodes)
        s3 == createBranchLabel(s2)
        preFinallyReturnOrRaiseLabel == Last(s3.flowNodes)
        s4 == [s3 EXCEPT !.flowNodes = Append(@,
                  [FlowNode({"PreFinallyGate"})
                      EXCEPT !.antecedent = preFinallyReturnOrRaiseLabel])]
        preFinallyGate == Last(s4.flowNodes)
        gate(t) == t
        toExceptTargets(t) == addAntecedentToEach(t, curExceptTargets, t.currentFlowNode)
        pushFinallyTarget(t) ==
            IF Present(node.finallySuite)
            THEN [t EXCEPT !.finallyTargets = Append(@, preFinallyReturnOrRaiseLabel)]
            ELSE t
        tried(u, t) ==
            [u EXCEPT !.currentExceptTargets = t.currentExceptTargets,
                      !.history = Append(@,
                          [e |-> "tryBody", node |-> node.id,
                           before |-> s.currentFlowNode, gate |-> preFinallyGate,
                           preFinallyLabel |-> preFinallyLabel,
                           returnOrRaiseLabel |-> preFinallyReturnOrRaiseLabel,
                           exceptLabels |-> curExceptTargets,
                           first |-> Len(t.flowNodes) + 1,
                           last |-> Len(u.flowNodes)])]
        trySuite(t) ==
            tried(walk([t EXCEPT !.currentExceptTargets =
                                     ExceptTargets(curExceptTargets)],
                       node.trySuite),
                  t)
        elseSuite(t) ==
            addAntecedentOfCurrent(
                IF Present(node.elseSuite) THEN walk(t, node.elseSuite) ELSE t,
                preFinallyLabel)
        exceptClauses(t) ==
            visitTryExceptClauses(
                [t EXCEPT !.nestedExceptDepth = @ + 1], node, curExceptTargets,
                preFinallyLabel, 1, ~isCodeUnreachable(t))
        popFinallyTarget(t) ==
            IF Present(node.finallySuite)
            THEN [t EXCEPT !.finallyTargets = SubSeq(@, 1, Len(@) - 1)]
            ELSE t
        create(t) ==
            [t EXCEPT !.flowNodes = Append(@,
                [FlowNode({"PostFinally"})
                    EXCEPT !.antecedent = t.currentFlowNode,
                           !.preFinallyGate = preFinallyGate])]
        leave(t, isAfterElseAndExceptsReachable) ==
            LET postFinallyNode == Last(t.flowNodes)
            IN  setCurrentFlowNode(t, IF isAfterElseAndExceptsReachable
                                      THEN postFinallyNode
                                      ELSE unreachableFlowNode)
        finallySuite(t, isAfterElseAndExceptsReachable) ==
            IF Present(node.finallySuite)
            THEN leave(create(walk(t, node.finallySuite)),
                       isAfterElseAndExceptsReachable)
            ELSE t
        finally(clauses) ==
            finallySuite(
                finishFlowLabelAsCurrent(
                    popFinallyTarget([clauses.s EXCEPT !.nestedExceptDepth = @ - 1]),
                    preFinallyLabel),
                clauses.r)
    IN  finally(exceptClauses(elseSuite(trySuite(pushFinallyTarget(
            toExceptTargets(gate(s4)))))))

visitTry(s, node) ==
    LET count == Len(node.exceptClauses)
        s1 == createBranchLabels(s, count)
        curExceptTargets == [i \in 1..count |-> Len(s.flowNodes) + i]
        s2 == createBranchLabel(s1)
        preFinallyLabel == Last(s2.flowNodes)
        s3 == createBranchLabel(s2)
        preFinallyReturnOrRaiseLabel == Last(s3.flowNodes)
        s4 == [s3 EXCEPT !.flowNodes = Append(@,
                  [FlowNode({"PreFinallyGate"})
                      EXCEPT !.antecedent = preFinallyReturnOrRaiseLabel])]
        preFinallyGate == Last(s4.flowNodes)
        gate(t) ==
            IF Present(node.finallySuite)
            THEN addAntecedent(t, preFinallyLabel, preFinallyGate) ELSE t
        toExceptTargets(t) == addAntecedentToEach(t, curExceptTargets, t.currentFlowNode)
        pushFinallyTarget(t) ==
            IF Present(node.finallySuite)
            THEN [t EXCEPT !.finallyTargets = Append(@, preFinallyReturnOrRaiseLabel)]
            ELSE t
        tried(u, t) ==
            [u EXCEPT !.currentExceptTargets = t.currentExceptTargets,
                      !.history = Append(@,
                          [e |-> "tryBody", node |-> node.id,
                           before |-> s.currentFlowNode, gate |-> preFinallyGate,
                           preFinallyLabel |-> preFinallyLabel,
                           returnOrRaiseLabel |-> preFinallyReturnOrRaiseLabel,
                           exceptLabels |-> curExceptTargets,
                           first |-> Len(t.flowNodes) + 1,
                           last |-> Len(u.flowNodes)])]
        trySuite(t) ==
            tried(walk([t EXCEPT !.currentExceptTargets =
                                     ExceptTargets(curExceptTargets)],
                       node.trySuite),
                  t)
        elseSuite(t) ==
            addAntecedentOfCurrent(
                IF Present(node.elseSuite) THEN walk(t, node.elseSuite) ELSE t,
                preFinallyLabel)
        exceptClauses(t) ==
            visitTryExceptClauses(
                [t EXCEPT !.nestedExceptDepth = @ + 1], node, curExceptTargets,
                preFinallyLabel, 1, ~isCodeUnreachable(t))
        popFinallyTarget(t) ==
            IF Present(node.finallySuite)
            THEN [t EXCEPT !.finallyTargets = SubSeq(@, 1, Len(@) - 1)]
            ELSE t
        create(t) ==
            [t EXCEPT !.flowNodes = Append(@,
                [FlowNode({"PostFinally"})
                    EXCEPT !.antecedent = t.currentFlowNode,
                           !.preFinallyGate = preFinallyGate])]
        leave(t, isAfterElseAndExceptsReachable) ==
            LET postFinallyNode == Last(t.flowNodes)
            IN  setCurrentFlowNode(t, IF isAfterElseAndExceptsReachable
                                      THEN postFinallyNode
                                      ELSE unreachableFlowNode)
        finallySuite(t, isAfterElseAndExceptsReachable) ==
            IF Present(node.finallySuite)
            THEN leave(create(walk(t, node.finallySuite)),
                       isAfterElseAndExceptsReachable)
            ELSE t
        finally(clauses) ==
            finallySuite(
                finishFlowLabelAsCurrent(
                    popFinallyTarget([clauses.s EXCEPT !.nestedExceptDepth = @ - 1]),
                    preFinallyLabel),
                clauses.r)
    IN  finally(exceptClauses(elseSuite(trySuite(pushFinallyTarget(
            toExceptTargets(gate(s4)))))))

RECURSIVE visitGlobalFrom(_, _, _)
visitGlobalFrom(s, node, i) ==
    IF i > Len(node.nameList) THEN s
    ELSE LET name == node.nameList[i]
             nameValue == name.value
             globalScope == getGlobalScope(s, s.currentScope)
             redefined(t) ==
                 LET bindings == t.bindingMaps[t.notLocalBindings]
                 IN  IF nameValue \in DOMAIN bindings /\ bindings[nameValue] = "Nonlocal"
                     THEN addError(t, "nonLocalRedefinition", name) ELSE t
             reassigned(t) ==
                 LET valueWithScope == lookUpSymbolRecursive(t, t.currentScope, nameValue)
                 IN  IF /\ valueWithScope.symbol # 0
                        /\ valueWithScope.scope = t.currentScope
                     THEN addError(t, "globalReassignment", name) ELSE t
             record(t) ==
                 IF t.currentScope # globalScope
                 THEN [t EXCEPT !.bindingMaps[t.notLocalBindings] =
                                    Put(@, nameValue, "Global")]
                 ELSE t
             logged(u) ==
                 [u EXCEPT !.history = Append(@,
                     [e |-> "global", node |-> name.id, name |-> nameValue,
                      scope |-> s.currentScope,
                      bound |-> lookUpSymbol(s, s.currentScope, nameValue) # 0,
                      bindings |-> s.bindingMaps[s.notLocalBindings]])]
         IN  visitGlobalFrom(
                 logged(record(bindNameToScope(reassigned(redefined(s)), globalScope,
                                               nameValue).s)),
                 node, i + 1)
visitGlobal(s, node) == visitGlobalFrom(s, node, 1)

RECURSIVE visitNonlocalFrom(_, _, _)
visitNonlocalFrom(s, node, i) ==
    IF i > Len(node.nameList) THEN s
    ELSE LET name == node.nameList[i]
             nameValue == name.value
             globalScope == getGlobalScope(s, s.currentScope)
             bindings == s.bindingMaps[s.notLocalBindings]
             s1 == IF nameValue \in DOMAIN bindings /\ bindings[nameValue] = "Global"
                   THEN addError(s, "globalRedefinition", name) ELSE s
             record(t, valueWithScope) ==
                 IF valueWithScope.symbol # 0
                 THEN [t EXCEPT !.bindingMaps[t.notLocalBindings] =
                                    Put(@, nameValue, "Nonlocal")]
                 ELSE t
             bind(t, valueWithScope) ==
                 record(IF /\ valueWithScope.symbol # 0
                           /\ valueWithScope.scope = t.currentScope
                        THEN addError(t, "nonLocalReassignment", name)
                        ELSE IF \/ valueWithScope.symbol = 0
                                \/ valueWithScope.scope = globalScope
                        THEN addError(t, "nonLocalNoBinding", name)
                        ELSE t,
                        valueWithScope)
             look(t) == bind(t, lookUpSymbolRecursive(t, t.currentScope, nameValue))
             logged(u) ==
                 [u EXCEPT !.history = Append(@,
                     [e |-> "nonlocal", node |-> name.id, name |-> nameValue,
                      scope |-> s.currentScope, scopes |-> s.scopes,
                      bindings |-> bindings,
                      bindingsAfter |-> u.bindingMaps[u.notLocalBindings],
                      errors |-> {u.diagnostics[k].message :
                                     k \in (Len(s.diagnostics) + 1)..Len(u.diagnostics)}])]
         IN  visitNonlocalFrom(logged(look(s1)), node, i + 1)
visitNonlocal(s, node) ==
    IF s.currentScope = getGlobalScope(s, s.currentScope)
    THEN addError(s, "nonLocalInModule", node)
    ELSE visitNonlocalFrom(s, node, 1)

RECURSIVE visitWithFrom(_, _, _)
visitWithFrom(s, node, i) ==
    IF i > Len(node.withItems) THEN s
    ELSE LET item == node.withItems[i]
         IN  IF Present(item.target)
             THEN visitWithFrom(
                      createAssignmentTargetFlowNodes(
                          addInferredTypeAssignmentForVariable(
                              bindPossibleTupleNamedTarget(walk(s, item.expression),
                                                           item.target),
                              item.target, item),
                          item.target, TRUE, FALSE),
                      node, i + 1)
             ELSE visitWithFrom(walk(s, item.expression), node, i + 1)
visitWith(s, node) == walk(visitWithFrom(s, node, 1), node.suite)

visitTernary(s, node) ==
    LET s1 == createBranchLabel(s)
        trueLabel == Last(s1.flowNodes)
        s2 == createBranchLabel(s1)
        falseLabel == Last(s2.flowNodes)
        s3 == createBranchLabel(s2)
        postExpressionLabel == Last(s3.flowNodes)
        ifExpression(t) ==
            addAntecedentOfCurrent(
                walk(finishFlowLabelAsCurrent(t, trueLabel), node.ifExpression),
                postExpressionLabel)
        elseExpression(t) ==
            addAntecedentOfCurrent(
                walk(finishFlowLabelAsCurrent(t, falseLabel), node.elseExpression),
                postExpressionLabel)
    IN  finishFlowLabelAsCurrent(
            elseExpression(ifExpression(
                bindConditional(s3, node.testExpression, trueLabel, falseLabel))),
            postExpressionLabel)

\* visitUnaryOperation that binds the operand of `not` with the targets as
\* they are.
visitUnaryOperationTargetsKept(s, node) ==
    IF node.operator = "Not" /\ s.currentFalseTarget # 0 /\ s.currentTrueTarget # 0
    THEN bindConditional(s, node.expression, s.currentTrueTarget, s.currentFalseTarget)
    ELSE [walk([s EXCEPT !.currentTrueTarget = 0, !.currentFalseTarget = 0],
               node.expression)
            EXCEPT !.currentFalseTarget = s.currentFalseTarget,
                   !.currentTrueTarget = s.currentTrueTarget]

visitUnaryOperation(s, node) ==
    IF node.operator = "Not" /\ s.currentFalseTarget # 0 /\ s.currentTrueTarget # 0
    THEN bindConditional(s, node.expression, s.currentFalseTarget, s.currentTrueTarget)
    ELSE [walk([s EXCEPT !.currentTrueTarget = 0, !.currentFalseTarget = 0],
               node.expression)
            EXCEPT !.currentFalseTarget = s.currentFalseTarget,
                   !.currentTrueTarget = s.currentTrueTarget]

visitBinaryOperation(s, node) ==
    IF node.operator \in {"And", "Or"}
    THEN LET needsLabel == s.currentTrueTarget = 0 \/ s.currentFalseTarget = 0
             s1 == IF needsLabel THEN createBranchLabel(s) ELSE s
             postRightLabel == IF needsLabel THEN Last(s1.flowNodes) ELSE 0
             trueTarget == IF needsLabel THEN postRightLabel ELSE s.currentTrueTarget
             falseTarget == IF needsLabel THEN postRightLabel ELSE s.currentFalseTarget
             s2 == createBranchLabel(s1)
             preRightLabel == Last(s2.flowNodes)
             finish(t) ==
                 IF postRightLabel # 0 THEN finishFlowLabelAsCurrent(t, postRightLabel)
                 ELSE t
         IN  finish(bindConditional(
                        finishFlowLabelAsCurrent(
                            bindConditional(
                                s2, node.leftExpression,
                                IF node.operator = "And" THEN preRightLabel
                                ELSE trueTarget,
                                IF node.operator = "And" THEN falseTarget
                                ELSE preRightLabel),
                            preRightLabel),
                        node.rightExpression, trueTarget, falseTarget))
    ELSE [walk(walk([s EXCEPT !.currentTrueTarget = 0, !.currentFalseTarget = 0],
                    node.leftExpression),
               node.rightExpression)
            EXCEPT !.currentFalseTarget = s.currentFalseTarget,
                   !.currentTrueTarget = s.currentTrueTarget]

\* The first loop of visitListComprehension: the targets of the for clauses
\* are bound; r lists, per clause, the symbols this added (addedSymbols).
RECURSIVE bindComprehensionTargets(_, _, _)
bindComprehensionTargets(s, node, i) ==
    IF i > Len(node.comprehensions) THEN Result(s, <<>>)
    ELSE LET compr == node.comprehensions[i]
             addedSymbols(t) ==
                 Result(t, [k \in 1..(Len(t.symbols) - Len(s.symbols)) |->
                               Len(s.symbols) + k])
             prepend(added, rest) == Result(rest.s, <<added>> \o rest.r)
             next(b) == prepend(b.r, bindComprehensionTargets(b.s, node, i + 1))
         IN  IF compr.t = "ListComprehensionFor"
             THEN next(addedSymbols(
                      addInferredTypeAssignmentForVariable(
                          bindPossibleTupleNamedTarget(s, compr.targetExpression),
                          compr.targetExpression, compr)))
             ELSE next(Result(s, <<>>))

RECURSIVE createAliasFlowNodes(_, _)
createAliasFlowNodes(s, addedSymbols) ==
    IF Len(addedSymbols) = 0 THEN s
    ELSE LET addedSymbol == addedSymbols[1]
             aliasSymbol == lookUpSymbol(s, s.scopes[s.currentScope].parent,
                                         s.symbols[addedSymbol].name)
         IN  createAliasFlowNodes(
                 IF aliasSymbol # 0
                 THEN createAssignmentAliasFlowNode(s, addedSymbol, aliasSymbol) ELSE s,
                 Tail(addedSymbols))

\* The second loop of visitListComprehension.
RECURSIVE walkComprehensions(_, _, _, _, _)
walkComprehensions(s, node, boundSymbols, falseLabel, i) ==
    IF i > Len(node.comprehensions) THEN s
    ELSE LET compr == node.comprehensions[i]
             s1 == createBranchLabel(s)
             trueLabel == Last(s1.flowNodes)
         IN  IF compr.t = "ListComprehensionFor"
             THEN walkComprehensions(
                      createAssignmentTargetFlowNodes(
                          walk(createAliasFlowNodes(s, boundSymbols[i]),
                               compr.iterableExpression),
                          compr.targetExpression, TRUE, FALSE),
                      node, boundSymbols, falseLabel, i + 1)
             ELSE walkComprehensions(
                      finishFlowLabelAsCurrent(
                          bindConditional(s1, compr.testExpression, trueLabel,
                                          falseLabel),
                          trueLabel),
                      node, boundSymbols, falseLabel, i + 1)

visitListComprehension(s, node) ==
    LET enter(t) == createBranchLabel(setScope(t, node, t.currentScope))
        s1 == enter(createNewScope(s, "ListComprehension", s.currentScope))
        falseLabel == Last(s1.flowNodes)
        comprehensions(bound) == walkComprehensions(bound.s, node, bound.r, falseLabel, 1)
        expression(t) == addAntecedentOfCurrent(walk(t, node.expression), falseLabel)
        logged(t) ==
            [t EXCEPT !.history = Append(@,
                [e |-> "comprehension", node |-> node.id, scope |-> t.currentScope,
                 before |-> s.scopes, after |-> t.scopes])]
    IN  createNewScopeReturn(
            logged(finishFlowLabelAsCurrent(
                expression(comprehensions(bindComprehensionTargets(s1, node, 1))),
                falseLabel)),
            s)

\* For nested classes, the scope that contains the outermost class.
RECURSIVE skipClassScopes(_, _)
skipClassScopes(s, parentScope) ==
    IF s.scopes[parentScope].type = "Class"
    THEN skipClassScopes(s, s.scopes[parentScope].parent)
    ELSE parentScope

visitClass(s, node) ==
    LET \* t is the state in which the declaration has just been created
        add(bound, classDeclaration) ==
            setDeclaration(IF bound.r # 0
                           THEN addDeclaration(bound.s, bound.r, classDeclaration)
                           ELSE bound.s,
                           node, classDeclaration)
        declare(t) ==
            add(bindNameToScope(t, t.currentScope, node.name.value),
                Last(t.declarations))
        enter(t) == setScope(t, node, t.currentScope)
        classScope(t) ==
            createNewScopeReturn(
                walk(enter(createNewScope(t, "Class",
                                          skipClassScopes(t, t.currentScope))),
                     node.suite),
                t)
    IN  createAssignmentTargetFlowNodes(
            addSymbolToCurrentScope(
                classScope(walkMultiple(
                    declare(newDeclaration(
                        walkMultiple(s, node.decorators),
                        Declaration("Class", node, convertOffsetsToRange(node.name)))),
                    node.arguments)),
                node.name.value, TRUE).s,
            node.name, FALSE, FALSE)

RECURSIVE walkParameterDefaults(_, _, _)
walkParameterDefaults(s, parameters, i) ==
    IF i > Len(parameters) THEN s
    ELSE walkParameterDefaults(
             IF Present(parameters[i].defaultValue)
             THEN walk(s, parameters[i].defaultValue) ELSE s,
             parameters, i + 1)

\* The loop over the parameters in the deferred callbacks of visitFunction
\* and visitLambda (only the lambda's walks the parameter name).
RECURSIVE bindParameters(_, _, _, _)
bindParameters(s, parameters, i, walkName) ==
    IF i > Len(parameters) THEN s
    ELSE LET paramNode == parameters[i]
             \* t is the state in which the declaration has just been created
             add(t, symbol) ==
                 LET paramDeclaration == Last(t.declarations)
                 IN  setDeclaration(addDeclaration(t, symbol, paramDeclaration),
                                    paramNode.name, paramDeclaration)
             declare(bound) ==
                 IF bound.r # 0
                 THEN add(newDeclaration(bound.s,
                              Declaration("Parameter", paramNode,
                                          convertOffsetsToRange(paramNode))),
                          bound.r)
                 ELSE bound.s
             \* this.walk(paramNode.name), of a NameNode
             name(t) == IF walkName THEN visitName(t, paramNode.name) ELSE t
         IN  IF Present(paramNode.name)
             THEN bindParameters(
                      name(createFlowAssignment(
                          declare(bindNameToScope(s, s.currentScope,
                                                  paramNode.name.value)),
                          paramNode.name, FALSE)),
                      parameters, i + 1, walkName)
             ELSE bindParameters(s, parameters, i + 1, walkName)

\* visitFunction that makes the function's declaration the only one of the
\* symbol instead of adding it.
visitFunctionOnlyDeclaration(s, node) ==
    LET containingClassNode == getEnclosingClass(s, node, TRUE)
        add(t, symbol, functionDeclaration) ==
            setDeclaration(IF symbol # 0
                           THEN [t EXCEPT !.symbols[symbol].declarations =
                                         <<functionDeclaration>>]
                           ELSE t,
                           node, functionDeclaration)
        parameterDefaults(t) ==
            walkParameterDefaults(walkMultiple(t, node.decorators), node.parameters, 1)
        functionOrModuleScope(t) ==
            getScope(t, innermostAncestor(t, node, {"Module", "Function"}))
        enter(t) == setScope(t, node, t.currentScope)
        class(t) ==
            IF Present(getEnclosingClass(t, node, FALSE))
            THEN addBuiltInSymbolToCurrentScope(t, "__class__", node) ELSE t
        expressions(t) ==
            setCodeFlowExpressions(t, node, t.currentExecutionScopeReferenceMap)
        functionScope(t, functionDeclaration) ==
            createNewScopeReturn(
                expressions(deferBinding(
                    class(enter(createNewScope(t, "Function",
                                               functionOrModuleScope(t)))),
                    [kind |-> "Function", node |-> node,
                     functionDeclaration |-> functionDeclaration])),
                t)
        \* t is the state in which the declaration has just been created
        function(t, symbol) ==
            createAssignmentTargetFlowNodes(
                functionScope(parameterDefaults(add(t, symbol, Last(t.declarations))),
                              Last(t.declarations)),
                node.name, FALSE, FALSE)
        declare(bound) ==
            function(newDeclaration(bound.s,
                         [Declaration("Function", node, convertOffsetsToRange(node.name))
                             EXCEPT !.isMethod = Present(containingClassNode)]),
                     bound.r)
    IN  declare(bindNameToScope(s, s.currentScope, node.name.value))

visitFunction(s, node) ==
    LET containingClassNode == getEnclosingClass(s, node, TRUE)
        add(t, symbol, functionDeclaration) ==
            setDeclaration(IF symbol # 0
                           THEN addDeclaration(t, symbol, functionDeclaration)
                           ELSE t,
                           node, functionDeclaration)
        parameterDefaults(t) ==
            walkParameterDefaults(walkMultiple(t, node.decorators), node.parameters, 1)
        functionOrModuleScope(t) ==
            getScope(t, innermostAncestor(t, node, {"Module", "Function"}))
        enter(t) == setScope(t, node, t.currentScope)
        class(t) ==
            IF Present(getEnclosingClass(t, node, FALSE))
            THEN addBuiltInSymbolToCurrentScope(t, "__class__", node) ELSE t
        expressions(t) ==
            setCodeFlowExpressions(t, node, t.currentExecutionScopeReferenceMap)
        functionScope(t, functionDeclaration) ==
            createNewScopeReturn(
                expressions(deferBinding(
                    class(enter(createNewScope(t, "Function",
                                               functionOrModuleScope(t)))),
                    [kind |-> "Function", node |-> node,
                     functionDeclaration |-> functionDeclaration])),
                t)
        \* t is the state in which the declaration has just been created
        function(t, symbol) ==
            createAssignmentTargetFlowNodes(
                functionScope(parameterDefaults(add(t, symbol, Last(t.declarations))),
                              Last(t.declarations)),
                node.name, FALSE, FALSE)
        declare(bound) ==
            function(newDeclaration(bound.s,
                         [Declaration("Function", node, convertOffsetsToRange(node.name))
                             EXCEPT !.isMethod = Present(containingClassNode)]),
                     bound.r)
    IN  declare(bindNameToScope(s, s.currentScope, node.name.value))

\* The callback that does not add the end of the body to the return label.
bindFunctionBodyEndNotReturned(s, node, functionDeclaration) ==
    LET start(t) == setCurrentFlowNode(t, Last(t.flowNodes))
        returnTarget(t) ==
            [t EXCEPT !.currentReturnTarget = Last(t.flowNodes),
                      !.history = Append(@, [e |-> "returnTarget", node |-> node.id,
                                             label |-> Last(t.flowNodes)])]
        after(t) == setAfterFlowNode(t, node.suite, t.currentFlowNode)
        return(t) == t
        finish(t) == setAfterFlowNode(t, node, finishFlowLabel(t, t.currentReturnTarget))
    IN  finish(return(after(
            walk(returnTarget(createBranchLabel(
                     [bindParameters(start(createStartFlowNode(s)), node.parameters, 1,
                                     FALSE)
                         EXCEPT !.targetFunctionDeclaration = functionDeclaration])),
                 node.suite))))

\* The callback visitFunction defers.
bindFunctionBody(s, node, functionDeclaration) ==
    LET start(t) == setCurrentFlowNode(t, Last(t.flowNodes))
        returnTarget(t) ==
            [t EXCEPT !.currentReturnTarget = Last(t.flowNodes),
                      !.history = Append(@, [e |-> "returnTarget", node |-> node.id,
                                             label |-> Last(t.flowNodes)])]
        after(t) == setAfterFlowNode(t, node.suite, t.currentFlowNode)
        return(t) == addAntecedentOfCurrent(t, t.currentReturnTarget)
        finish(t) == setAfterFlowNode(t, node, finishFlowLabel(t, t.currentReturnTarget))
    IN  finish(return(after(
            walk(returnTarget(createBranchLabel(
                     [bindParameters(start(createStartFlowNode(s)), node.parameters, 1,
                                     FALSE)
                         EXCEPT !.targetFunctionDeclaration = functionDeclaration])),
                 node.suite))))

\* visitLambda that does not attach the scope it creates to the lambda.
visitLambdaScopeNotSet(s, node) ==
    LET s1 == walkParameterDefaults(s, node.parameters, 1)
        enter(t) == t
        lambdaScope(t) ==
            LET t1 == enter(createNewScope(t, "Function", t.currentScope))
                t2 == deferBinding(t1, [kind |-> "Lambda", node |-> node,
                                        functionDeclaration |-> 0])
            IN  createNewScopeReturn(t2, t)
    IN  lambdaScope(s1)

visitLambda(s, node) ==
    LET s1 == walkParameterDefaults(s, node.parameters, 1)
        enter(t) == setScope(t, node, t.currentScope)
        lambdaScope(t) ==
            LET t1 == enter(createNewScope(t, "Function", t.currentScope))
                t2 == deferBinding(t1, [kind |-> "Lambda", node |-> node,
                                        functionDeclaration |-> 0])
            IN  createNewScopeReturn(t2, t)
    IN  lambdaScope(s1)

\* The callback visitLambda defers.
bindLambdaBody(s, node) ==
    LET start(t) == setCurrentFlowNode(t, Last(t.flowNodes))
        expressions(t) ==
            setCodeFlowExpressions(t, node, t.currentExecutionScopeReferenceMap)
    IN  expressions(walk(bindParameters(start(createStartFlowNode(s)), node.parameters,
                                        1, TRUE),
                         node.expression))

(***************************************************************************)
(* Imports.  What the import resolver and the other files' binders hand    *)
(* to this binder is input: every module named resolves, and its symbol    *)
(* table is the one below.  Module p advertises an export list,            *)
(* __all__ = ["x", "_h", "__doc__"]; the others declare no __all__.        *)
(***************************************************************************)
importLookup(resolvedPath) ==
    IF resolvedPath = "p"
    THEN [symbolTable |-> <<[name |-> "__doc__", isIgnoredForProtocolMatch |-> TRUE],
                            [name |-> "__all__", isIgnoredForProtocolMatch |-> FALSE],
                            [name |-> "w", isIgnoredForProtocolMatch |-> FALSE],
                            [name |-> "x", isIgnoredForProtocolMatch |-> FALSE],
                            [name |-> "_h", isIgnoredForProtocolMatch |-> FALSE]>>,
          hasDunderAll |-> TRUE, namesInDunderAll |-> <<"x", "_h", "__doc__">>]
    ELSE [symbolTable |-> <<[name |-> "w", isIgnoredForProtocolMatch |-> FALSE],
                            [name |-> "x", isIgnoredForProtocolMatch |-> FALSE],
                            [name |-> "_h", isIgnoredForProtocolMatch |-> FALSE],
                            [name |-> "__doc__", isIgnoredForProtocolMatch |-> TRUE]>>,
          hasDunderAll |-> FALSE, namesInDunderAll |-> <<>>]

\* name.startsWith('_')
startsWithUnderscore(name) == name \in {"_h", "_p", "__doc__", "__class__", "__all__"}

\* _getWildcardImportNames that takes the names without an underscore
\* whether the module advertises an export list or not.
getWildcardImportNamesNoExportList(lookupInfo) ==
    SelectSeq(lookupInfo.symbolTable, LAMBDA entry : ~startsWithUnderscore(entry.name))

\* Each name comes with its entry of the symbol table, which the loop of
\* visitImportFrom gets with lookupInfo.symbolTable.get(name).
\* getNamesInDunderAll returns the names of the export list the module
\* advertises, undefined when it advertises none.
getWildcardImportNames(lookupInfo) ==
    LET get(name) ==
            lookupInfo.symbolTable[
                CHOOSE k \in DOMAIN lookupInfo.symbolTable :
                    lookupInfo.symbolTable[k].name = name]
        namesToImport ==
            [k \in DOMAIN lookupInfo.namesInDunderAll |->
                get(lookupInfo.namesInDunderAll[k])]
    IN  IF lookupInfo.hasDunderAll THEN namesToImport
        ELSE SelectSeq(lookupInfo.symbolTable,
                       LAMBDA entry : ~startsWithUnderscore(entry.name))

\* The loop of visitImportFrom over the wildcard names; r is the list `names`.
RECURSIVE bindWildcardNames(_, _, _, _, _)
bindWildcardNames(s, node, wildcardNames, i, names) ==
    IF i > Len(wildcardNames) THEN Result(s, names)
    ELSE LET name == wildcardNames[i].name
             add(t, symbol) == addDeclaration(t, symbol, Last(t.declarations))
             declare(bound) ==
                 add(newDeclaration(bound.s,
                         [Declaration("Alias", node, emptyRange)
                             EXCEPT !.symbolName = name,
                                    !.path = node.module.nameParts[1].value]),
                     bound.r)
             next(bound) ==
                 IF bound.r # 0
                 THEN bindWildcardNames(declare(bound), node, wildcardNames, i + 1,
                                        Append(names, name))
                 ELSE bindWildcardNames(bound.s, node, wildcardNames, i + 1, names)
         IN  IF wildcardNames[i].isIgnoredForProtocolMatch
             THEN bindWildcardNames(s, node, wildcardNames, i + 1, names)
             ELSE next(bindNameToScope(s, s.currentScope, name))

\* The loop of visitImportFrom over the names of `from m import a, b as c`.
RECURSIVE bindImportedNames(_, _, _)
bindImportedNames(s, node, i) ==
    IF i > Len(node.imports) THEN s
    ELSE LET importSymbolNode == node.imports[i]
             nameNode == IF Present(importSymbolNode.alias) THEN importSymbolNode.alias
                         ELSE importSymbolNode.name
             add(t, symbol) == addDeclaration(t, symbol, Last(t.declarations))
             declare(bound) ==
                 add(newDeclaration(bound.s,
                         [Declaration("Alias", importSymbolNode, emptyRange)
                             EXCEPT !.symbolName = importSymbolNode.name.value,
                                    !.usesLocalName = Present(importSymbolNode.alias),
                                    !.path = node.module.nameParts[1].value]),
                     bound.r)
             import(bound) ==
                 IF bound.r # 0 THEN createFlowAssignment(declare(bound), nameNode, FALSE)
                 ELSE bound.s
         IN  bindImportedNames(import(bindNameToScope(s, s.currentScope, nameNode.value)),
                               node, i + 1)

visitImportFrom(s, node) ==
    LET resolvedPath == node.module.nameParts[1].value
        s1 == IF \/ Present(getEnclosingClass(s, node, FALSE))
                 \/ Present(getEnclosingFunction(s, node))
              THEN addError(s, "wildcardInFunction", node) ELSE s
        lookupInfo == importLookup(resolvedPath)
        wildcard(bound) ==
            createFlowWildcardImport(
                [bound.s EXCEPT !.history = Append(@,
                    [e |-> "wildcardImport", node |-> node.id,
                     scope |-> s.currentScope, names |-> bound.r])],
                node, bound.r)
    IN  IF node.isWildcardImport
        THEN wildcard(bindWildcardNames(s1, node, getWildcardImportNames(lookupInfo), 1,
                                        <<>>))
        ELSE bindImportedNames(s, node, 1)

\* The import result of a module name is a side field of its node, set
\* before the binder runs.  A ModuleLoaderActions object is a record of a
\* path and of implicitImports, a map from names to such records; a
\* declaration that has no map yet has the empty one.
addImplicitImportsToLoaderActions(importResult, loaderActions) ==
    LET list == importResult.implicitImports
        added[i \in 0..Len(list)] ==
            IF i = 0 THEN loaderActions.implicitImports
            ELSE IF list[i].name \in DOMAIN added[i - 1]
                 THEN [added[i - 1] EXCEPT ![list[i].name].path = list[i].path]
                 ELSE (list[i].name :> [path |-> list[i].path, implicitImports |-> <<>>])
                          @@ added[i - 1]
    IN  [loaderActions EXCEPT !.implicitImports = added[Len(list)]]

\* The loop of _createAliasDeclarationForMultipartImportName over the name
\* parts after the first; i counts from 1 as the code's i does from 0.
RECURSIVE fillRemainingNameParts(_, _, _, _)
fillRemainingNameParts(curLoaderActions, node, importInfo, i) ==
    IF i > Len(node.module.nameParts) \/ i > Len(importInfo.resolvedPaths)
    THEN curLoaderActions
    ELSE LET namePartValue == node.module.nameParts[i].value
             loaderActions ==
                 IF namePartValue \in DOMAIN curLoaderActions.implicitImports
                 THEN curLoaderActions.implicitImports[namePartValue]
                 ELSE [path |-> "", implicitImports |-> <<>>]
             last(actions) ==
                 IF i = Len(node.module.nameParts)
                 THEN addImplicitImportsToLoaderActions(importInfo,
                          [actions EXCEPT !.path = importInfo.resolvedPaths[i]])
                 ELSE actions
         IN  [curLoaderActions EXCEPT !.implicitImports =
                 (namePartValue :>
                      fillRemainingNameParts(last(loaderActions), node, importInfo, i + 1))
                     @@ @]

\* _createAliasDeclarationForMultipartImportName that looks for no
\* declaration the symbol has already.
createAliasDeclarationAlwaysNew(s, node, importAlias, importInfo, symbol) ==
    LET firstNamePartValue == node.module.nameParts[1].value
        newDecl ==
            [Declaration("Alias", node, emptyRange)
                EXCEPT !.moduleName = importInfo.importName,
                       !.firstNamePart = firstNamePartValue,
                       !.usesLocalName = Present(importAlias)]
        filled ==
            IF Present(importAlias) \/ Len(node.module.nameParts) = 1
            THEN addImplicitImportsToLoaderActions(importInfo,
                     [newDecl EXCEPT !.path =
                         importInfo.resolvedPaths[Len(importInfo.resolvedPaths)]])
            ELSE fillRemainingNameParts(newDecl, node, importInfo, 2)
        add(t) == addDeclaration(t, symbol, Last(t.declarations))
    IN  IF /\ importInfo.isImportFound
           /\ ~importInfo.isNativeLib
           /\ Len(importInfo.resolvedPaths) > 0
        THEN add(newDeclaration(s, filled))
        ELSE add(newDeclaration(s,
                 [Declaration("Alias", node, emptyRange)
                     EXCEPT !.path = "*** unresolved ***",
                            !.usesLocalName = Present(importAlias)]))

createAliasDeclarationForMultipartImportName(s, node, importAlias, importInfo, symbol) ==
    LET firstNamePartValue == node.module.nameParts[1].value
        symbolDeclarations == s.symbols[symbol].declarations
        matching ==
            {k \in DOMAIN symbolDeclarations :
                /\ s.declarations[symbolDeclarations[k]].type = "Alias"
                /\ s.declarations[symbolDeclarations[k]].firstNamePart = firstNamePartValue}
        \* the declaration found, 0 when there is none
        existingDecl ==
            IF matching = {} THEN 0
            ELSE symbolDeclarations[CHOOSE k \in matching : \A j \in matching : k <= j]
        newDecl ==
            IF existingDecl # 0 THEN s.declarations[existingDecl]
            ELSE [Declaration("Alias", node, emptyRange)
                     EXCEPT !.moduleName = importInfo.importName,
                            !.firstNamePart = firstNamePartValue,
                            !.usesLocalName = Present(importAlias)]
        filled ==
            IF Present(importAlias) \/ Len(node.module.nameParts) = 1
            THEN addImplicitImportsToLoaderActions(importInfo,
                     [newDecl EXCEPT !.path =
                         importInfo.resolvedPaths[Len(importInfo.resolvedPaths)]])
            ELSE fillRemainingNameParts(newDecl, node, importInfo, 2)
        add(t) == addDeclaration(t, symbol, Last(t.declarations))
    IN  IF /\ importInfo.isImportFound
           /\ ~importInfo.isNativeLib
           /\ Len(importInfo.resolvedPaths) > 0
        THEN IF existingDecl # 0
             THEN [s EXCEPT !.declarations[existingDecl] = filled]
             ELSE add(newDeclaration(s, filled))
        ELSE add(newDeclaration(s,
                 [Declaration("Alias", node, emptyRange)
                     EXCEPT !.path = "*** unresolved ***",
                            !.usesLocalName = Present(importAlias)]))

\* The file is no stub file and no input imports typing, so the symbol is
\* not hidden and _typingImportAliases stays as it is.
visitImportAs(s, node) ==
    LET firstNamePartValue == node.module.nameParts[1].value
        symbolName ==
            IF Present(node.alias) THEN node.alias.value ELSE firstNamePartValue
        importInfo == node.module.importInfo
        logged(bound, t) ==
            [t EXCEPT !.history = Append(@,
                [e |-> "importAs", node |-> node.id, symbol |-> bound.r,
                 before |-> bound.s.symbols[bound.r].declarations,
                 after |-> t.symbols[bound.r].declarations,
                 declarationsBefore |-> bound.s.declarations,
                 declarationsAfter |-> t.declarations])]
        declare(bound) ==
            IF bound.r # 0
            THEN logged(bound,
                     createAliasDeclarationForMultipartImportName(
                         bound.s, node, node.alias, importInfo, bound.r))
            ELSE bound.s
    IN  IF Len(node.module.nameParts) > 0
        THEN createFlowAssignment(
                 declare(bindNameToScope(s, s.currentScope, symbolName)),
                 IF Present(node.alias) THEN node.alias ELSE node.module.nameParts[1],
                 FALSE)
        ELSE s

(***************************************************************************)
(* ParseTreeWalker.walk: the visit method of the node's type, then the     *)
(* node's children when that method returns true (or there is none).       *)
(***************************************************************************)
walkMultiple(s, nodes) ==
    IF Len(nodes) = 0 THEN s
    ELSE walkMultiple(walk(s, nodes[1]), Tail(nodes))

walk(s, node) ==
    <<s,
      CASE node.t = "Suite" -> visitSuite(s, node)
        [] node.t = "Class" -> visitClass(s, node)
        [] node.t = "Function" -> visitFunction(s, node)
        [] node.t = "Lambda" -> visitLambda(s, node)
        [] node.t = "Call" -> visitCall(s, node)
        [] node.t = "Assignment" -> visitAssignment(s, node)
        [] node.t = "AssignmentExpression" -> visitAssignmentExpression(s, node)
        [] node.t = "AugmentedAssignment" -> visitAugmentedAssignment(s, node)
        [] node.t = "Del" -> visitDel(s, node)
        [] node.t = "TypeAnnotation" ->
              walkMultiple(visitTypeAnnotation(s, node), Children(node))
        [] node.t = "For" -> visitFor(s, node)
        [] node.t = "Continue" -> visitContinue(s, node)
        [] node.t = "Break" -> visitBreak(s, node)
        [] node.t = "Return" -> visitReturn(s, node)
        [] node.t = "Yield" -> visitYield(s, node)
        [] node.t = "YieldFrom" -> visitYieldFrom(s, node)
        [] node.t = "MemberAccess" ->
              walkMultiple(visitMemberAccess(s, node), Children(node))
        [] node.t = "Name" -> visitName(s, node)
        [] node.t = "If" -> visitIf(s, node)
        [] node.t = "While" -> visitWhile(s, node)
        [] node.t = "Assert" -> visitAssert(s, node)
        [] node.t = "Except" -> visitExcept(s, node)
        [] node.t = "Raise" -> visitRaise(s, node)
        [] node.t = "Try" -> visitTry(s, node)
        [] node.t = "Global" -> walkMultiple(visitGlobal(s, node), Children(node))
        [] node.t = "Nonlocal" -> walkMultiple(visitNonlocal(s, node), Children(node))
        [] node.t = "ImportAs" -> walkMultiple(visitImportAs(s, node), Children(node))
        [] node.t = "ImportFrom" -> walkMultiple(visitImportFrom(s, node), Children(node))
        [] node.t = "With" -> visitWith(s, node)
        [] node.t = "Ternary" -> visitTernary(s, node)
        [] node.t = "UnaryOperation" -> visitUnaryOperation(s, node)
        [] node.t = "BinaryOperation" -> visitBinaryOperation(s, node)
        [] node.t = "ListComprehension" -> visitListComprehension(s, node)
        [] OTHER -> walkMultiple(s, Children(node))>>[2]

(***************************************************************************)
(* The inputs: modules of up to MaxStatements statements, each one of the  *)
(* statements below.  Node ids follow the source text, b is the id the     *)
(* statement starts after.                                                 *)
(***************************************************************************)
MaxStatements == 2

SL(id, statement) == StatementListNode(id, <<statement>>)

Statement(k, b) ==
    CASE k = 1 ->   \* x = f(x)
            SL(b + 1, AssignmentNode(b + 2, NameNode(b + 3, "x"),
                CallNode(b + 4, NameNode(b + 5, "f"),
                         <<ArgumentNode(b + 6, NameNode(b + 7, "x"))>>)))
      [] k = 2 ->   \* raise x
            SL(b + 1, RaiseNode(b + 2, NameNode(b + 3, "x")))
      [] k = 3 ->   \* try: f(); x = 1 / except E as e: pass
            TryNode(b + 1,
                SuiteNode(b + 2, <<SL(b + 3, CallNode(b + 4, NameNode(b + 5, "f"), <<>>)),
                                   SL(b + 6, AssignmentNode(b + 7, NameNode(b + 8, "x"),
                                                            NumberNode(b + 9)))>>),
                <<ExceptNode(b + 10, NameNode(b + 11, "E"), NameNode(b + 12, "e"),
                             SuiteNode(b + 13, <<SL(b + 14, PassNode(b + 15))>>))>>,
                None, None)
      [] k = 4 ->   \* def f(p): try: return p / finally: x = 1 / yield
            FunctionNode(b + 1, NameNode(b + 2, "f"),
                <<ParameterNode(b + 3, NameNode(b + 4, "p"), None)>>,
                SuiteNode(b + 5,
                    <<TryNode(b + 6,
                          SuiteNode(b + 7, <<SL(b + 8, ReturnNode(b + 9,
                                                           NameNode(b + 10, "p")))>>),
                          <<>>, None,
                          SuiteNode(b + 11, <<SL(b + 12, AssignmentNode(b + 13,
                                                  NameNode(b + 14, "x"),
                                                  NumberNode(b + 15)))>>)),
                      SL(b + 16, YieldNode(b + 17, None))>>),
                FALSE)
      [] k = 5 ->   \* while True: if x: break; pass
            WhileNode(b + 1, ConstantNode(b + 2, "True"),
                SuiteNode(b + 3, <<IfNode(b + 4, NameNode(b + 5, "x"),
                                      SuiteNode(b + 6, <<SL(b + 7, BreakNode(b + 8)),
                                                         SL(b + 9, PassNode(b + 10))>>),
                                      None)>>),
                None)
      [] k = 6 ->   \* if x and True: del x
            IfNode(b + 1,
                BinaryOperationNode(b + 2, "And", NameNode(b + 3, "x"),
                                    ConstantNode(b + 4, "True")),
                SuiteNode(b + 5, <<SL(b + 6, DelNode(b + 7, <<NameNode(b + 8, "x")>>))>>),
                None)
      [] k = 7 ->   \* def g(): global x; x = yield; def h(): return; yield x / return h
            FunctionNode(b + 1, NameNode(b + 2, "g"), <<>>,
                SuiteNode(b + 3,
                    <<SL(b + 4, GlobalNode(b + 5, <<NameNode(b + 6, "x")>>)),
                      SL(b + 7, AssignmentNode(b + 8, NameNode(b + 9, "x"),
                                               YieldNode(b + 10, None))),
                      FunctionNode(b + 11, NameNode(b + 12, "h"), <<>>,
                          SuiteNode(b + 13,
                              <<SL(b + 14, ReturnNode(b + 15, None)),
                                SL(b + 16, YieldNode(b + 17, NameNode(b + 18, "x")))>>),
                          FALSE),
                      SL(b + 19, ReturnNode(b + 20, NameNode(b + 21, "h")))>>),
                FALSE)
      [] k = 8 ->   \* class C: def m(self): self.x = 1
            ClassNode(b + 1, NameNode(b + 2, "C"), <<>>,
                SuiteNode(b + 3,
                    <<FunctionNode(b + 4, NameNode(b + 5, "m"),
                          <<ParameterNode(b + 6, NameNode(b + 7, "self"), None)>>,
                          SuiteNode(b + 8, <<SL(b + 9, AssignmentNode(b + 10,
                                 MemberAccessNode(b + 11, NameNode(b + 12, "self"),
                                                  NameNode(b + 13, "x")),
                                 NumberNode(b + 14)))>>),
                          FALSE)>>))
      [] k = 9 ->   \* from m import *
            SL(b + 1, ImportFromNode(b + 2,
                          ModuleNameNode(b + 3, 0, <<NameNode(b + 4, "m")>>), TRUE, <<>>))
      [] k = 10 ->  \* f = lambda p: (yield p)
            SL(b + 1, AssignmentNode(b + 2, NameNode(b + 3, "f"),
                LambdaNode(b + 4, <<ParameterNode(b + 5, NameNode(b + 6, "p"), None)>>,
                           YieldNode(b + 7, NameNode(b + 8, "p")))))
      [] k = 11 ->  \* [(y := x) for x in f if x]
            SL(b + 1, ListComprehensionNode(b + 2,
                AssignmentExpressionNode(b + 3, NameNode(b + 4, "y"), NameNode(b + 5, "x")),
                <<ListComprehensionForNode(b + 6, NameNode(b + 7, "x"),
                                           NameNode(b + 8, "f")),
                  ListComprehensionIfNode(b + 9, NameNode(b + 10, "x"))>>))
      [] k = 12 ->  \* x = 2
            SL(b + 1, AssignmentNode(b + 2, NameNode(b + 3, "x"), NumberNode(b + 4)))
      [] k = 13 ->  \* try: (try: x = 1 / except: y = 2) / except E: pass
            TryNode(b + 1,
                SuiteNode(b + 2,
                    <<TryNode(b + 3,
                          SuiteNode(b + 4, <<SL(b + 5, AssignmentNode(b + 6,
                                                 NameNode(b + 7, "x"),
                                                 NumberNode(b + 8)))>>),
                          <<ExceptNode(b + 9, None, None,
                                SuiteNode(b + 10, <<SL(b + 11, AssignmentNode(b + 12,
                                                        NameNode(b + 13, "y"),
                                                        NumberNode(b + 14)))>>))>>,
                          None, None)>>),
                <<ExceptNode(b + 15, NameNode(b + 16, "E"), None,
                             SuiteNode(b + 17, <<SL(b + 18, PassNode(b + 19))>>))>>,
                None, None)
      [] k = 14 ->  \* def k(): try: from m import *; if x is None: raise
                    \*          except E: return / finally: f()
            FunctionNode(b + 1, NameNode(b + 2, "k"), <<>>,
                SuiteNode(b + 3,
                    <<TryNode(b + 4,
                          SuiteNode(b + 5,
                              <<SL(b + 6, ImportFromNode(b + 7,
                                    ModuleNameNode(b + 8, 0, <<NameNode(b + 9, "m")>>),
                                    TRUE, <<>>)),
                                IfNode(b + 10,
                                    BinaryOperationNode(b + 11, "Is", NameNode(b + 12, "x"),
                                                        ConstantNode(b + 13, "None")),
                                    SuiteNode(b + 14, <<SL(b + 15, RaiseNode(b + 16, None))>>),
                                    None)>>),
                          <<ExceptNode(b + 17, NameNode(b + 18, "E"), None,
                                SuiteNode(b + 19, <<SL(b + 20, ReturnNode(b + 21, None))>>))>>,
                          None,
                          SuiteNode(b + 22, <<SL(b + 23, CallNode(b + 24,
                                                  NameNode(b + 25, "f"), <<>>))>>))>>),
                FALSE)
      [] k = 15 ->  \* if False: class D: pass
            IfNode(b + 1, ConstantNode(b + 2, "False"),
                SuiteNode(b + 3, <<ClassNode(b + 4, NameNode(b + 5, "D"), <<>>,
                                       SuiteNode(b + 6, <<SL(b + 7, PassNode(b + 8))>>))>>),
                None)
      [] k = 16 ->  \* for x in f: continue; x = 1 / else: y = lambda: x
            ForNode(b + 1, NameNode(b + 2, "x"), NameNode(b + 3, "f"),
                SuiteNode(b + 4, <<SL(b + 5, ContinueNode(b + 6)),
                                   SL(b + 7, AssignmentNode(b + 8, NameNode(b + 9, "x"),
                                                            NumberNode(b + 10)))>>),
                SuiteNode(b + 11, <<SL(b + 12, AssignmentNode(b + 13, NameNode(b + 14, "y"),
                                       LambdaNode(b + 15, <<>>, NameNode(b + 16, "x"))))>>))
      [] k = 17 ->  \* class K: h = lambda: 1
            ClassNode(b + 1, NameNode(b + 2, "K"), <<>>,
                SuiteNode(b + 3, <<SL(b + 4, AssignmentNode(b + 5, NameNode(b + 6, "h"),
                                       LambdaNode(b + 7, <<>>, NumberNode(b + 8))))>>))
      [] k = 18 ->  \* try: a = 1 / except E as e: a = 2 / finally: a = 3
            TryNode(b + 1,
                SuiteNode(b + 2, <<SL(b + 3, AssignmentNode(b + 4, NameNode(b + 5, "a"),
                                                            NumberNode(b + 6)))>>),
                <<ExceptNode(b + 7, NameNode(b + 8, "E"), NameNode(b + 9, "e"),
                      SuiteNode(b + 10, <<SL(b + 11, AssignmentNode(b + 12,
                                              NameNode(b + 13, "a"),
                                              NumberNode(b + 14)))>>))>>,
                None,
                SuiteNode(b + 15, <<SL(b + 16, AssignmentNode(b + 17, NameNode(b + 18, "a"),
                                                              NumberNode(b + 19)))>>))
      [] k = 19 ->  \* def r(): try: (try: return 1 / finally: raise x)
                    \*          finally: if f(): pass; return 2
            FunctionNode(b + 1, NameNode(b + 2, "r"), <<>>,
                SuiteNode(b + 3,
                    <<TryNode(b + 4,
                          SuiteNode(b + 5,
                              <<TryNode(b + 6,
                                    SuiteNode(b + 7, <<SL(b + 8, ReturnNode(b + 9,
                                                            NumberNode(b + 10)))>>),
                                    <<>>, None,
                                    SuiteNode(b + 11, <<SL(b + 12, RaiseNode(b + 13,
                                                            NameNode(b + 14, "x")))>>))>>),
                          <<>>, None,
                          SuiteNode(b + 15,
                              <<IfNode(b + 16, CallNode(b + 17, NameNode(b + 18, "f"), <<>>),
                                    SuiteNode(b + 19, <<SL(b + 20, PassNode(b + 21))>>),
                                    None),
                                SL(b + 22, ReturnNode(b + 23, NumberNode(b + 24)))>>))>>),
                FALSE)
      [] k = 20 ->  \* def a(): x = 1; def b(): nonlocal x, z; global x
            FunctionNode(b + 1, NameNode(b + 2, "a"), <<>>,
                SuiteNode(b + 3,
                    <<SL(b + 4, AssignmentNode(b + 5, NameNode(b + 6, "x"),
                                               NumberNode(b + 7))),
                      FunctionNode(b + 8, NameNode(b + 9, "b"), <<>>,
                          SuiteNode(b + 10,
                              <<SL(b + 11, NonlocalNode(b + 12, <<NameNode(b + 13, "x"),
                                                                  NameNode(b + 14, "z")>>)),
                                SL(b + 15, GlobalNode(b + 16, <<NameNode(b + 17, "x")>>))>>),
                          FALSE)>>),
                FALSE)
      [] k = 21 ->  \* def c(): y = 1; global w; nonlocal y, w, x, len
            FunctionNode(b + 1, NameNode(b + 2, "c"), <<>>,
                SuiteNode(b + 3,
                    <<SL(b + 4, AssignmentNode(b + 5, NameNode(b + 6, "y"),
                                               NumberNode(b + 7))),
                      SL(b + 8, GlobalNode(b + 9, <<NameNode(b + 10, "w")>>)),
                      SL(b + 11, NonlocalNode(b + 12, <<NameNode(b + 13, "y"),
                                                        NameNode(b + 14, "w"),
                                                        NameNode(b + 15, "x"),
                                                        NameNode(b + 16, "len")>>))>>),
                FALSE)
      [] k = 22 ->  \* nonlocal x
            SL(b + 1, NonlocalNode(b + 2, <<NameNode(b + 3, "x")>>))
      [] k = 23 ->  \* [[(x := y) for y in f] for x in g]
            SL(b + 1, ListComprehensionNode(b + 2,
                ListComprehensionNode(b + 3,
                    AssignmentExpressionNode(b + 4, NameNode(b + 5, "x"),
                                             NameNode(b + 6, "y")),
                    <<ListComprehensionForNode(b + 7, NameNode(b + 8, "y"),
                                               NameNode(b + 9, "f"))>>),
                <<ListComprehensionForNode(b + 10, NameNode(b + 11, "x"),
                                           NameNode(b + 12, "g"))>>))
      [] k = 24 ->  \* class Q: [(v := u) for u in f]
            ClassNode(b + 1, NameNode(b + 2, "Q"), <<>>,
                SuiteNode(b + 3, <<SL(b + 4, ListComprehensionNode(b + 5,
                    AssignmentExpressionNode(b + 6, NameNode(b + 7, "v"),
                                             NameNode(b + 8, "u")),
                    <<ListComprehensionForNode(b + 9, NameNode(b + 10, "u"),
                                               NameNode(b + 11, "f"))>>))>>))
      [] k = 25 ->  \* import a.x, a.y.z
            SL(b + 1, [t |-> "Import", id |-> b + 2, list |-> <<
                [t |-> "ImportAs", id |-> b + 3, alias |-> None, module |->
                    [t |-> "ModuleName", id |-> b + 4, leadingDots |-> 0,
                     nameParts |-> <<NameNode(b + 5, "a"), NameNode(b + 6, "x")>>,
                     importInfo |->
                        [isImportFound |-> TRUE, isNativeLib |-> FALSE,
                         importName |-> "a.x",
                         resolvedPaths |-> <<"a/__init__.py", "a/x.py">>,
                         implicitImports |-> <<>>]]],
                [t |-> "ImportAs", id |-> b + 7, alias |-> None, module |->
                    [t |-> "ModuleName", id |-> b + 8, leadingDots |-> 0,
                     nameParts |-> <<NameNode(b + 9, "a"), NameNode(b + 10, "y"),
                                     NameNode(b + 11, "z")>>,
                     importInfo |->
                        [isImportFound |-> TRUE, isNativeLib |-> FALSE,
                         importName |-> "a.y.z",
                         resolvedPaths |-> <<"a/__init__.py", "a/y/__init__.py",
                                             "a/y/z.py">>,
                         implicitImports |-> <<>>]]]>>])
      [] k = 26 ->  \* import a.y, a
            SL(b + 1, [t |-> "Import", id |-> b + 2, list |-> <<
                [t |-> "ImportAs", id |-> b + 3, alias |-> None, module |->
                    [t |-> "ModuleName", id |-> b + 4, leadingDots |-> 0,
                     nameParts |-> <<NameNode(b + 5, "a"), NameNode(b + 6, "y")>>,
                     importInfo |->
                        [isImportFound |-> TRUE, isNativeLib |-> FALSE,
                         importName |-> "a.y",
                         resolvedPaths |-> <<"a/__init__.py", "a/y/__init__.py">>,
                         implicitImports |->
                            <<[name |-> "w", path |-> "a/y/w.py"],
                              [name |-> "z", path |-> "a/y/z.pyi"]>>]]],
                [t |-> "ImportAs", id |-> b + 7, alias |-> None, module |->
                    [t |-> "ModuleName", id |-> b + 8, leadingDots |-> 0,
                     nameParts |-> <<NameNode(b + 9, "a")>>,
                     importInfo |->
                        [isImportFound |-> TRUE, isNativeLib |-> FALSE,
                         importName |-> "a",
                         resolvedPaths |-> <<"a/__init__.py">>,
                         implicitImports |->
                            <<[name |-> "y", path |-> "a/y/__init__.pyi"],
                              [name |-> "v", path |-> "a/v.py"]>>]]]>>])
      [] k = 27 ->  \* import a.y as a, n.x
            SL(b + 1, [t |-> "Import", id |-> b + 2, list |-> <<
                [t |-> "ImportAs", id |-> b + 3, alias |-> NameNode(b + 7, "a"),
                 module |->
                    [t |-> "ModuleName", id |-> b + 4, leadingDots |-> 0,
                     nameParts |-> <<NameNode(b + 5, "a"), NameNode(b + 6, "y")>>,
                     importInfo |->
                        [isImportFound |-> TRUE, isNativeLib |-> FALSE,
                         importName |-> "a.y",
                         resolvedPaths |-> <<"a/__init__.py", "a/y/__init__.py">>,
                         implicitImports |-> <<[name |-> "w", path |-> "a/y/w.py"]>>]]],
                [t |-> "ImportAs", id |-> b + 8, alias |-> None, module |->
                    [t |-> "ModuleName", id |-> b + 9, leadingDots |-> 0,
                     nameParts |-> <<NameNode(b + 10, "n"), NameNode(b + 11, "x")>>,
                     importInfo |->
                        [isImportFound |-> TRUE, isNativeLib |-> TRUE,
                         importName |-> "n.x",
                         resolvedPaths |-> <<"n/__init__.py", "n/x.so">>,
                         implicitImports |-> <<>>]]]>>])
      [] k = 28 ->  \* from p import *
            SL(b + 1, ImportFromNode(b + 2,
                ModuleNameNode(b + 3, 0, <<NameNode(b + 4, "p")>>), TRUE, <<>>))
      [] k = 29 ->  \* for x in f: (for y in x: break / else: break); x = 1
                    \* else: y = 2
            ForNode(b + 1, NameNode(b + 2, "x"), NameNode(b + 3, "f"),
                SuiteNode(b + 4, <<
                    ForNode(b + 5, NameNode(b + 6, "y"), NameNode(b + 7, "x"),
                        SuiteNode(b + 8, <<SL(b + 9, BreakNode(b + 10))>>),
                        SuiteNode(b + 11, <<SL(b + 12, BreakNode(b + 13))>>)),
                    SL(b + 14, AssignmentNode(b + 15, NameNode(b + 16, "x"),
                                              NumberNode(b + 17)))>>),
                SuiteNode(b + 18, <<SL(b + 19, AssignmentNode(b + 20, NameNode(b + 21, "y"),
                                                              NumberNode(b + 22)))>>))
      [] k = 30 ->  \* if x: (while None: break / else: y = 2);
                    \*       (while not False: x = 1 / else: y = 2)
            IfNode(b + 1, NameNode(b + 2, "x"),
                SuiteNode(b + 3, <<
                    WhileNode(b + 4, ConstantNode(b + 5, "None"),
                        SuiteNode(b + 6, <<SL(b + 7, BreakNode(b + 8))>>),
                        SuiteNode(b + 9, <<SL(b + 10,
                            AssignmentNode(b + 11, NameNode(b + 12, "y"),
                                           NumberNode(b + 13)))>>)),
                    WhileNode(b + 14,
                        UnaryOperationNode(b + 15, "Not", ConstantNode(b + 16, "False")),
                        SuiteNode(b + 17, <<SL(b + 18,
                            AssignmentNode(b + 19, NameNode(b + 20, "x"),
                                           NumberNode(b + 21)))>>),
                        SuiteNode(b + 22, <<SL(b + 23,
                            AssignmentNode(b + 24, NameNode(b + 25, "y"),
                                           NumberNode(b + 26)))>>))>>),
                None)
      [] k = 31 ->  \* if x and False: y = 1
                    \* else: (if True: pass / else: pass); (if x: raise x / else: raise y)
            IfNode(b + 1,
                BinaryOperationNode(b + 2, "And", NameNode(b + 3, "x"),
                                    ConstantNode(b + 4, "False")),
                SuiteNode(b + 5, <<SL(b + 6, AssignmentNode(b + 7, NameNode(b + 8, "y"),
                                                            NumberNode(b + 9)))>>),
                SuiteNode(b + 10, <<
                    IfNode(b + 11, ConstantNode(b + 12, "True"),
                        SuiteNode(b + 13, <<SL(b + 14, PassNode(b + 15))>>),
                        SuiteNode(b + 16, <<SL(b + 17, PassNode(b + 18))>>)),
                    IfNode(b + 19, NameNode(b + 20, "x"),
                        SuiteNode(b + 21, <<SL(b + 22,
                            RaiseNode(b + 23, NameNode(b + 24, "x")))>>),
                        SuiteNode(b + 25, <<SL(b + 26,
                            RaiseNode(b + 27, NameNode(b + 28, "y")))>>))>>))
      [] k = 32 ->  \* if x is y: (if 1 is not y: pass); (if x == y: pass);
                    \*            (if x < y: pass)
            IfNode(b + 1,
                BinaryOperationNode(b + 2, "Is", NameNode(b + 3, "x"), NameNode(b + 4, "y")),
                SuiteNode(b + 5, <<
                    IfNode(b + 6,
                        BinaryOperationNode(b + 7, "IsNot", NumberNode(b + 8),
                                            NameNode(b + 9, "y")),
                        SuiteNode(b + 10, <<SL(b + 11, PassNode(b + 12))>>), None),
                    IfNode(b + 13,
                        BinaryOperationNode(b + 14, "Equals", NameNode(b + 15, "x"),
                                            NameNode(b + 16, "y")),
                        SuiteNode(b + 17, <<SL(b + 18, PassNode(b + 19))>>), None),
                    IfNode(b + 20,
                        BinaryOperationNode(b + 21, "LessThan", NameNode(b + 22, "x"),
                                            NameNode(b + 23, "y")),
                        SuiteNode(b + 24, <<SL(b + 25, PassNode(b + 26))>>), None)>>),
                None)
      [] k = 33 ->  \* if not (x or y) and z: pass
            IfNode(b + 1,
                BinaryOperationNode(b + 2, "And",
                    UnaryOperationNode(b + 3, "Not",
                        BinaryOperationNode(b + 4, "Or", NameNode(b + 5, "x"),
                                            NameNode(b + 6, "y"))),
                    NameNode(b + 7, "z")),
                SuiteNode(b + 8, <<SL(b + 9, PassNode(b + 10))>>),
                None)
      [] k = 34 ->  \* x += 1
            SL(b + 1, AugmentedAssignmentNode(b + 2, NameNode(b + 3, "x"),
                                              NumberNode(b + 4)))
      [] k = 35 ->  \* try: raise x / except E as e: raise y / finally: y = 1
            TryNode(b + 1,
                SuiteNode(b + 2, <<SL(b + 3, RaiseNode(b + 4, NameNode(b + 5, "x")))>>),
                <<ExceptNode(b + 6, NameNode(b + 7, "E"), NameNode(b + 8, "e"),
                      SuiteNode(b + 9, <<SL(b + 10, RaiseNode(b + 11,
                                                        NameNode(b + 12, "y")))>>))>>,
                None,
                SuiteNode(b + 13, <<SL(b + 14, AssignmentNode(b + 15, NameNode(b + 16, "y"),
                                                              NumberNode(b + 17)))>>))
      [] k = 36 ->  \* def n(): (def o(): if x: return 1); raise x
            FunctionNode(b + 1, NameNode(b + 2, "n"), <<>>,
                SuiteNode(b + 3, <<
                    FunctionNode(b + 4, NameNode(b + 5, "o"), <<>>,
                        SuiteNode(b + 6, <<
                            IfNode(b + 7, NameNode(b + 8, "x"),
                                SuiteNode(b + 9, <<SL(b + 10,
                                    ReturnNode(b + 11, NumberNode(b + 12)))>>),
                                None)>>),
                        FALSE),
                    SL(b + 13, RaiseNode(b + 14, NameNode(b + 15, "x")))>>),
                FALSE)
      [] k = 37 ->  \* def f(): global g; g = 1; g += 1; [(g := u) for u in x]
            FunctionNode(b + 1, NameNode(b + 2, "f"), <<>>,
                SuiteNode(b + 3,
                    <<SL(b + 4, GlobalNode(b + 5, <<NameNode(b + 6, "g")>>)),
                      SL(b + 7, AssignmentNode(b + 8, NameNode(b + 9, "g"),
                                               NumberNode(b + 10))),
                      SL(b + 11, AugmentedAssignmentNode(b + 12, NameNode(b + 13, "g"),
                                                         NumberNode(b + 14))),
                      SL(b + 15, ListComprehensionNode(b + 16,
                          AssignmentExpressionNode(b + 17, NameNode(b + 18, "g"),
                                                   NameNode(b + 19, "u")),
                          <<ListComprehensionForNode(b + 20, NameNode(b + 21, "u"),
                                                     NameNode(b + 22, "x"))>>))>>),
                FALSE)
      [] k = 38 ->  \* while x: try: (def q(): if x: break; if y: continue; raise x)
                    \*          except E: pass / finally: pass
            WhileNode(b + 1, NameNode(b + 2, "x"),
                SuiteNode(b + 3, <<
                    TryNode(b + 4,
                        SuiteNode(b + 5, <<
                            FunctionNode(b + 6, NameNode(b + 7, "q"), <<>>,
                                SuiteNode(b + 8, <<
                                    IfNode(b + 9, NameNode(b + 10, "x"),
                                        SuiteNode(b + 11, <<SL(b + 12, BreakNode(b + 13))>>),
                                        None),
                                    IfNode(b + 14, NameNode(b + 15, "y"),
                                        SuiteNode(b + 16, <<SL(b + 17,
                                                               ContinueNode(b + 18))>>),
                                        None),
                                    SL(b + 19, RaiseNode(b + 20, NameNode(b + 21, "x")))>>),
                                FALSE)>>),
                        <<ExceptNode(b + 22, NameNode(b + 23, "E"), None,
                              SuiteNode(b + 24, <<SL(b + 25, PassNode(b + 26))>>))>>,
                        None,
                        SuiteNode(b + 27, <<SL(b + 28, PassNode(b + 29))>>))>>),
                None)
      [] k = 39 ->  \* def u(): return; (def v(): yield)
            FunctionNode(b + 1, NameNode(b + 2, "u"), <<>>,
                SuiteNode(b + 3,
                    <<SL(b + 4, ReturnNode(b + 5, None)),
                      FunctionNode(b + 6, NameNode(b + 7, "v"), <<>>,
                          SuiteNode(b + 8, <<SL(b + 9, YieldNode(b + 10, None))>>),
                          FALSE)>>),
                FALSE)
      [] k = 40 ->  \* if f(a and b): pass
            IfNode(b + 1,
                CallNode(b + 2, NameNode(b + 3, "f"),
                    <<ArgumentNode(b + 4,
                          BinaryOperationNode(b + 5, "And", NameNode(b + 6, "a"),
                                              NameNode(b + 7, "b")))>>),
                SuiteNode(b + 8, <<SL(b + 9, PassNode(b + 10))>>),
                None)

Statements == 1..40

\* A module is a choice of statements, one per position.
Programs == UNION {[1..n -> Statements] : n \in 1..MaxStatements}

Module(program) ==
    ModuleNode(1, [i \in 1..Len(program) |-> Statement(program[i], 30 * i)])

(***************************************************************************)
(* bindModule, step by step: the prologue, one round of the loop over the  *)
(* module's statements per step, the epilogue, then one deferred task per  *)
(* step.                                                                   *)
(***************************************************************************)
\* The builtins module declares len.
BuiltinsScope == [Scope("Builtin", 0) EXCEPT !.symbolTable = "len" :> 1]
BuiltinsSymbols == <<[name |-> "len", flags |-> {}, declarations |-> <<>>, scope |-> 1]>>

\* A Binder just constructed.  The Unreachable flow node is static, and
\* fileInfo.builtinsScope is the scope of the builtins module.
freshBinder(s) ==
    [s EXCEPT !.deferredBindingTasks = <<>>, !.currentScope = 0,
              !.bindingMaps = << <<>> >>, !.notLocalBindings = 1,
              !.nestedExceptDepth = 0, !.currentFlowNode = 0,
              !.targetFunctionDeclaration = 0, !.currentBreakTarget = 0,
              !.currentContinueTarget = 0, !.currentTrueTarget = 0,
              !.currentFalseTarget = 0, !.currentExceptTargets = NoExceptTargets,
              !.finallyTargets = <<>>, !.currentReturnTarget = 0,
              !.currentExecutionScopeReferenceMap = 0,
              !.flowNodes = <<FlowNode({"Unreachable"})>>,
              !.scopes = <<BuiltinsScope>>, !.symbols = BuiltinsSymbols,
              !.declarations = <<>>, !.referenceMaps = <<>>, !.diagnostics = <<>>,
              !.history = <<>>]

builtinsScope == 1

Init ==
    /\ tree \in {Module(program) : program \in Programs}
    /\ parentOf = Parents(tree)
    /\ pc = "start"
    /\ statementIndex = 1
    /\ foundUnreachableStatement = FALSE
    /\ deferredBindingTasks = <<>>
    /\ currentScope = 0
    /\ bindingMaps = << <<>> >>
    /\ notLocalBindings = 1
    /\ nestedExceptDepth = 0
    /\ currentFlowNode = 0
    /\ targetFunctionDeclaration = 0
    /\ currentBreakTarget = 0
    /\ currentContinueTarget = 0
    /\ currentTrueTarget = 0
    /\ currentFalseTarget = 0
    /\ currentExceptTargets = NoExceptTargets
    /\ finallyTargets = <<>>
    /\ currentReturnTarget = 0
    /\ currentExecutionScopeReferenceMap = 0
    /\ flowNodes = <<FlowNode({"Unreachable"})>>
    /\ scopes = <<BuiltinsScope>>
    /\ symbols = BuiltinsSymbols
    /\ declarations = <<>>
    /\ referenceMaps = <<>>
    /\ nodeInfo = EmptyNodeInfo
    /\ diagnostics = <<>>
    /\ history = <<>>
    /\ run = 1
    /\ firstRun = <<>>
    /\ steps = 0

RECURSIVE addBuiltInSymbolsToCurrentScope(_, _, _)
addBuiltInSymbolsToCurrentScope(s, names, node) ==
    IF Len(names) = 0 THEN s
    ELSE addBuiltInSymbolsToCurrentScope(
             addBuiltInSymbolToCurrentScope(s, names[1], node), Tail(names), node)

\* bindModule up to the loop over the statements.
bindModuleBegin(s, node) ==
    LET enter(t) == setFlowNode(setScope(t, node, t.currentScope), node,
                                t.currentFlowNode)
        s1 == enter(createNewScope(s, "Module", builtinsScope))
        s2 == addBuiltInSymbolsToCurrentScope(s1,
                  <<"__doc__", "__name__", "__loader__", "__package__", "__spec__",
                    "__path__", "__file__", "__cached__", "__dict__">>, node)
        start(t) == setCurrentFlowNode(t, Last(t.flowNodes))
    IN  start(createStartFlowNode(s2))

\* bindModule after the loop, up to the call of _bindDeferred.  The binder
\* fields _createNewScope restores are those of the fresh binder.
bindModuleEnd(s, node) ==
    LET s1 == setCodeFlowExpressions(s, node, s.currentExecutionScopeReferenceMap)
        after(t) == setAfterFlowNode(t, node, t.currentFlowNode)
        s2 == createNewScopeReturn(after(s1),
                                   [currentExecutionScopeReferenceMap |-> 0,
                                    currentScope |-> 0, notLocalBindings |-> 1])
    IN  [s2 EXCEPT !.history = Append(@, [e |-> "moduleWalked"])]

\* The round that takes the task queued last (pop) instead of the first (shift).
bindDeferredLastFirst(s) ==
    LET nextItem == s.deferredBindingTasks[Len(s.deferredBindingTasks)]
        callback == nextItem.callback
        s1 == [s EXCEPT !.deferredBindingTasks = SubSeq(@, 1, Len(@) - 1),
                        !.currentScope = nextItem.scope,
                        !.notLocalBindings = nextItem.nonLocalBindingsMap,
                        !.nestedExceptDepth = 0,
                        !.currentExecutionScopeReferenceMap =
                            nextItem.codeFlowExpressionMap]
        \* the callback is invoked in state t; s is what the caller left
        invoke(t) ==
            [t EXCEPT !.history = Append(@,
                [e |-> "callback", node |-> callback.node.id,
                 scope |-> t.currentScope, notLocalBindings |-> t.notLocalBindings,
                 nestedExceptDepth |-> t.nestedExceptDepth,
                 referenceMap |-> t.currentExecutionScopeReferenceMap,
                 breakTarget |-> t.currentBreakTarget,
                 continueTarget |-> t.currentContinueTarget,
                 trueTarget |-> t.currentTrueTarget,
                 falseTarget |-> t.currentFalseTarget,
                 exceptTargets |-> t.currentExceptTargets,
                 finallyTargets |-> t.finallyTargets, flows |-> Len(t.flowNodes),
                 left |-> [scope |-> s.currentScope,
                           notLocalBindings |-> s.notLocalBindings,
                           referenceMap |-> s.currentExecutionScopeReferenceMap]])]
    IN  [(IF callback.kind = "Function"
          THEN bindFunctionBody(invoke(s1), callback.node, callback.functionDeclaration)
          ELSE bindLambdaBody(invoke(s1), callback.node))
            EXCEPT !.history = Append(@, [e |-> "returned",
                                          node |-> callback.node.id])]

\* The round that leaves the reference map as the previous callback left it.
bindDeferredMapKept(s) ==
    LET nextItem == Head(s.deferredBindingTasks)
        callback == nextItem.callback
        s1 == [s EXCEPT !.deferredBindingTasks = Tail(@),
                        !.currentScope = nextItem.scope,
                        !.notLocalBindings = nextItem.nonLocalBindingsMap,
                        !.nestedExceptDepth = 0]
        \* the callback is invoked in state t; s is what the caller left
        invoke(t) ==
            [t EXCEPT !.history = Append(@,
                [e |-> "callback", node |-> callback.node.id,
                 scope |-> t.currentScope, notLocalBindings |-> t.notLocalBindings,
                 nestedExceptDepth |-> t.nestedExceptDepth,
                 referenceMap |-> t.currentExecutionScopeReferenceMap,
                 breakTarget |-> t.currentBreakTarget,
                 continueTarget |-> t.currentContinueTarget,
                 trueTarget |-> t.currentTrueTarget,
                 falseTarget |-> t.currentFalseTarget,
                 exceptTargets |-> t.currentExceptTargets,
                 finallyTargets |-> t.finallyTargets, flows |-> Len(t.flowNodes),
                 left |-> [scope |-> s.currentScope,
                           notLocalBindings |-> s.notLocalBindings,
                           referenceMap |-> s.currentExecutionScopeReferenceMap]])]
    IN  [(IF callback.kind = "Function"
          THEN bindFunctionBody(invoke(s1), callback.node, callback.functionDeclaration)
          ELSE bindLambdaBody(invoke(s1), callback.node))
            EXCEPT !.history = Append(@, [e |-> "returned",
                                          node |-> callback.node.id])]

\* The round that forgets the tasks its callback queued.
bindDeferredNestedDropped(s) ==
    LET nextItem == Head(s.deferredBindingTasks)
        callback == nextItem.callback
        s1 == [s EXCEPT !.deferredBindingTasks = Tail(@),
                        !.currentScope = nextItem.scope,
                        !.notLocalBindings = nextItem.nonLocalBindingsMap,
                        !.nestedExceptDepth = 0,
                        !.currentExecutionScopeReferenceMap =
                            nextItem.codeFlowExpressionMap]
        \* the callback is invoked in state t; s is what the caller left
        invoke(t) ==
            [t EXCEPT !.history = Append(@,
                [e |-> "callback", node |-> callback.node.id,
                 scope |-> t.currentScope, notLocalBindings |-> t.notLocalBindings,
                 nestedExceptDepth |-> t.nestedExceptDepth,
                 referenceMap |-> t.currentExecutionScopeReferenceMap,
                 breakTarget |-> t.currentBreakTarget,
                 continueTarget |-> t.currentContinueTarget,
                 trueTarget |-> t.currentTrueTarget,
                 falseTarget |-> t.currentFalseTarget,
                 exceptTargets |-> t.currentExceptTargets,
                 finallyTargets |-> t.finallyTargets, flows |-> Len(t.flowNodes),
                 left |-> [scope |-> s.currentScope,
                           notLocalBindings |-> s.notLocalBindings,
                           referenceMap |-> s.currentExecutionScopeReferenceMap]])]
    IN  [(IF callback.kind = "Function"
          THEN bindFunctionBody(invoke(s1), callback.node, callback.functionDeclaration)
          ELSE bindLambdaBody(invoke(s1), callback.node))
            EXCEPT !.history = Append(@, [e |-> "returned",
                                          node |-> callback.node.id]),
                   !.deferredBindingTasks = Tail(s.deferredBindingTasks)]

\* One round of the loop of _bindDeferred.
bindDeferred(s) ==
    LET nextItem == Head(s.deferredBindingTasks)
        callback == nextItem.callback
        s1 == [s EXCEPT !.deferredBindingTasks = Tail(@),
                        !.currentScope = nextItem.scope,
                        !.notLocalBindings = nextItem.nonLocalBindingsMap,
                        !.nestedExceptDepth = 0,
                        !.currentExecutionScopeReferenceMap =
                            nextItem.codeFlowExpressionMap]
        \* the callback is invoked in state t; s is what the caller left
        invoke(t) ==
            [t EXCEPT !.history = Append(@,
                [e |-> "callback", node |-> callback.node.id,
                 scope |-> t.currentScope, notLocalBindings |-> t.notLocalBindings,
                 nestedExceptDepth |-> t.nestedExceptDepth,
                 referenceMap |-> t.currentExecutionScopeReferenceMap,
                 breakTarget |-> t.currentBreakTarget,
                 continueTarget |-> t.currentContinueTarget,
                 trueTarget |-> t.currentTrueTarget,
                 falseTarget |-> t.currentFalseTarget,
                 exceptTargets |-> t.currentExceptTargets,
                 finallyTargets |-> t.finallyTargets, flows |-> Len(t.flowNodes),
                 left |-> [scope |-> s.currentScope,
                           notLocalBindings |-> s.notLocalBindings,
                           referenceMap |-> s.currentExecutionScopeReferenceMap]])]
    IN  [(IF callback.kind = "Function"
          THEN bindFunctionBody(invoke(s1), callback.node, callback.functionDeclaration)
          ELSE bindLambdaBody(invoke(s1), callback.node))
            EXCEPT !.history = Append(@, [e |-> "returned",
                                          node |-> callback.node.id])]

BindModuleBegin ==
    /\ pc = "start"
    /\ Becomes(bindModuleBegin(State, tree))
    /\ pc' = "walk"
    /\ statementIndex' = 1
    /\ foundUnreachableStatement' = FALSE
    /\ steps' = steps + 1
    /\ UNCHANGED <<run, firstRun>>

WalkModuleStatement ==
    /\ pc = "walk"
    /\ statementIndex <= Len(tree.statements)
    /\ LET finish(round) == /\ Becomes(round.s)
                            /\ foundUnreachableStatement' = round.r
       IN  finish(walkStatementAndReportUnreachable(
                      State, tree.statements[statementIndex],
                      foundUnreachableStatement))
    /\ statementIndex' = statementIndex + 1
    /\ steps' = steps + 1
    /\ UNCHANGED <<pc, run, firstRun>>

BindModuleEnd ==
    /\ pc = "walk"
    /\ statementIndex > Len(tree.statements)
    /\ Becomes(bindModuleEnd(State, tree))
    /\ pc' = "deferred"
    /\ steps' = steps + 1
    /\ UNCHANGED <<statementIndex, foundUnreachableStatement, run, firstRun>>

BindDeferred ==
    /\ pc = "deferred"
    /\ Len(deferredBindingTasks) > 0
    /\ Becomes(bindDeferred(State))
    /\ steps' = steps + 1
    /\ UNCHANGED <<pc, statementIndex, foundUnreachableStatement, run, firstRun>>

Return ==
    /\ pc = "deferred"
    /\ Len(deferredBindingTasks) = 0
    /\ pc' = "done"
    /\ steps' = steps + 1
    /\ UNCHANGED <<tree, parentOf, statementIndex, foundUnreachableStatement,
                   deferredBindingTasks, currentScope, notLocalBindings,
                   nestedExceptDepth, currentFlowNode, targetFunctionDeclaration,
                   currentBreakTarget, currentContinueTarget, currentTrueTarget,
                   currentFalseTarget, currentExceptTargets, finallyTargets,
                   currentReturnTarget, currentExecutionScopeReferenceMap,
                   flowNodes, scopes, symbols, declarations, bindingMaps,
                   referenceMaps, nodeInfo, diagnostics, history, run, firstRun>>

Next ==
    \/ BindModuleBegin
    \/ WalkModuleStatement
    \/ BindModuleEnd
    \/ BindDeferred
    \/ Return

Spec == Init /\ [][Next]_vars

\* bindModule runs in one thread from its call to its return: the walk of
\* the module's statements, then the loop of _bindDeferred, which goes on
\* while the queue holds a task.  Until it has returned it has a step to
\* take (one of the actions of Next is enabled), and it takes it.
SpecFair ==
    Init /\ [][Next]_vars /\ WF_steps(pc # "done" /\ steps' = steps + 1)

(***************************************************************************)
(* The second specification: once the binder has returned, a second binder *)
(* is constructed and run over the same tree, with the flow node ids       *)
(* starting over.  The tree either has been cleaned of what the first run  *)
(* attached to its nodes or still carries it; what it carries are objects  *)
(* of the first run, told apart from those of the second by their sign.    *)
(***************************************************************************)
StaleTable(table) == [k \in DOMAIN table |-> 0 - table[k]]

StaleNodeInfo(info) ==
    [flowNode |-> StaleTable(info.flowNode),
     afterFlowNode |-> StaleTable(info.afterFlowNode),
     scope |-> StaleTable(info.scope),
     declaration |-> StaleTable(info.declaration),
     codeFlowExpressions |-> StaleTable(info.codeFlowExpressions)]

Rebind ==
    /\ pc = "done"
    /\ run = 1
    /\ \E cleaned \in BOOLEAN :
           Becomes([freshBinder(State) EXCEPT
                       !.nodeInfo = IF cleaned THEN EmptyNodeInfo
                                    ELSE StaleNodeInfo(nodeInfo)])
    /\ pc' = "start"
    /\ run' = 2
    /\ firstRun' = [flowNodes |-> flowNodes, flowNode |-> nodeInfo.flowNode,
                    afterFlowNode |-> nodeInfo.afterFlowNode,
                    cleaned |-> nodeInfo' = EmptyNodeInfo]
    /\ steps' = steps + 1
    /\ UNCHANGED <<statementIndex, foundUnreachableStatement>>

SpecTwice == Init /\ [][Next \/ Rebind]_vars

(***************************************************************************)
(* Properties.                                                             *)
(***************************************************************************)
Range(seq) == {seq[i] : i \in DOMAIN seq}

\* The events of the given kind in the history.
Events(kind) == {i \in DOMAIN history : history[i].e = kind}

\* The flow nodes that _addExceptTargets is for.
ExceptTargetKinds ==
    {"Assignment", "Call", "TrueCondition", "FalseCondition", "WildcardImport"}

\* The try bodies walked so far whose walk created flow node f.
TryBodiesAround(f) ==
    {i \in Events("tryBody") : history[i].first <= f /\ f <= history[i].last}

\* Flow node f was created while the body of the try of event i was walked,
\* and that try is the innermost such.
CreatedInTryBody(f, i) ==
    /\ i \in TryBodiesAround(f)
    /\ \A j \in TryBodiesAround(f) : history[j].first <= history[i].first

\* C1: every Assignment, Call, Condition or WildcardImport flow node created
\* while the body of a try statement was walked is an antecedent of each
\* except label of that try (the innermost one around it), once the body has
\* been walked.
ExceptTargetFanIn ==
    \A i \in Events("tryBody") : \A f \in history[i].first..history[i].last :
        (flowNodes[f].flags \cap ExceptTargetKinds # {} /\ CreatedInTryBody(f, i))
            => \A k \in DOMAIN history[i].exceptLabels :
                   f \in Range(flowNodes[history[i].exceptLabels[k]].antecedents)

\* C2: in every reachable state no BranchLabel or LoopLabel has the
\* Unreachable singleton in its list of antecedents.
NoUnreachableAntecedent ==
    \A f \in DOMAIN flowNodes :
        flowNodes[f].flags \cap {"BranchLabel", "LoopLabel"} # {}
            => unreachableFlowNode \notin Range(flowNodes[f].antecedents)

\* The nodes of the tree under root, root included.
RECURSIVE Descendants(_)
Descendants(root) ==
    {root} \cup UNION {Descendants(Children(root)[i]) : i \in DOMAIN Children(root)}

AllNodes == Descendants(tree)

\* The statement lists _walkStatementsAndReportUnreachable is called on: those
\* of the module and of the suites.
StatementLists == {n.statements : n \in {m \in AllNodes : m.t \in {"Module", "Suite"}}}

\* The loop of _walkStatementsAndReportUnreachable has come to the statement.
Processed(statement) ==
    \E i \in Events("statement") : history[i].node = statement.id

StatementEvent(statement) ==
    history[CHOOSE i \in Events("statement") : history[i].node = statement.id]

\* The flow node attached to the node (0 when there is none).
Attached(node) ==
    IF node.id \in DOMAIN nodeInfo.flowNode THEN nodeInfo.flowNode[node.id] ELSE 0

\* The statement is a return, raise, break or continue.
EndsFlow(statement) ==
    /\ statement.t = "StatementList"
    /\ statement.statements[Len(statement.statements)].t
           \in {"Return", "Raise", "Break", "Continue"}

\* The loop over the list has come past position j.
LoopPast(list, j) ==
    IF list = tree.statements /\ pc \in {"start", "walk"}
    THEN pc = "walk" /\ statementIndex > j
    ELSE Processed(list[1])

\* C3: in a statement list the binder goes through, every statement that
\* follows a return, raise, break or continue has the Unreachable node
\* attached and is not walked, and every statement that follows a statement
\* after which the flow is reachable has another node than Unreachable
\* attached.
ReachabilityOfStatements ==
    \A list \in StatementLists : \A j \in 2..Len(list) :
        LoopPast(list, j) =>
            /\ Processed(list[j])
            /\ (\E i \in 1..(j - 1) : EndsFlow(list[i]))
                   => /\ Attached(list[j]) = unreachableFlowNode
                      /\ ~StatementEvent(list[j]).walked
            /\ StatementEvent(list[j - 1]).after # unreachableFlowNode
                   => Attached(list[j]) \notin {0, unreachableFlowNode}

\* A statement after a return, and one after a statement that leaves the
\* flow reachable, have been gone through.
ReachabilityOfStatementsWitness ==
    /\ \E list \in StatementLists : \E j \in 2..Len(list) :
           /\ LoopPast(list, j)
           /\ EndsFlow(list[j - 1])
           /\ list[j - 1].statements[1].t = "Return"
    /\ \E list \in StatementLists : \E j \in 2..Len(list) :
           /\ LoopPast(list, j)
           /\ StatementEvent(list[j - 1]).after # unreachableFlowNode

\* The node with the given id.
NodeWithId(id) == CHOOSE n \in AllNodes : n.id = id

\* The node is or holds a yield or yield-from of the function whose body it is
\* part of: inner functions, lambdas and classes are other scopes.
RECURSIVE ContainsOwnYield(_)
ContainsOwnYield(node) ==
    \/ node.t \in {"Yield", "YieldFrom"}
    \/ /\ node.t \notin {"Function", "Lambda", "Class"}
       /\ \E i \in DOMAIN Children(node) : ContainsOwnYield(Children(node)[i])

FunctionDeclarations == {d \in DOMAIN declarations : declarations[d].type = "Function"}

\* The statements of the body of the function, at any depth, that the binder
\* went through without walking them.
UnwalkedIn(function) ==
    {n \in Descendants(function.suite) :
        /\ \E i \in Events("statement") : history[i].node = n.id /\ ~history[i].walked
        /\ innermostAncestor(State, n, {"Function", "Lambda", "Class"}) = function}

EventNodes(kind) ==
    LET events == SelectSeq(history, LAMBDA h : h.e = kind)
    IN  [i \in DOMAIN events |-> events[i].node]

\* The event of the given kind for the node.
EventOf(kind, node) == CHOOSE i \in Events(kind) : history[i].node = node

\* C5: no callback of a deferred function or lambda body runs before the walk
\* of the module's statements has finished; the callbacks run in the order in
\* which they were queued; and a body queued while another body's callback
\* runs has its callback run only after that callback has returned.
DeferredOrdering ==
    /\ \A i \in Events("callback") : \E j \in Events("moduleWalked") : j < i
    /\ LET queued == EventNodes("defer")
           called == EventNodes("callback")
       IN  /\ Len(called) <= Len(queued)
           /\ called = SubSeq(queued, 1, Len(called))
    /\ \A d \in Events("defer") : \A c \in Events("callback") :
           (/\ c < d
            /\ \A r \in Events("returned") : history[r].node = history[c].node => d < r)
               => \A i \in Events("callback") :
                      history[i].node = history[d].node
                          => \E r \in Events("returned") :
                                 history[r].node = history[c].node /\ r < i

\* Two bodies were queued by the walk of the module, a third was queued while
\* the callback of the first ran, and all three callbacks have run.
DeferredOrderingWitness ==
    /\ pc = "done"
    /\ \E d1, d2, d3 \in Events("defer") :
           /\ d1 < d2 /\ d2 < EventOf("callback", history[d1].node)
           /\ EventOf("callback", history[d1].node) < d3
           /\ d3 < EventOf("returned", history[d1].node)
           /\ EventOf("returned", history[d2].node) < EventOf("callback", history[d3].node)

\* The kinds of node that have a scope of their own.
ScopedKinds == {"Module", "Class", "Function", "Lambda", "ListComprehension"}

\* AnalyzerNodeInfo.setScope was called for the node exactly once, and the
\* scope it attached is one the binder created.
HasOneScope(node) ==
    /\ Cardinality({i \in Events("setScope") : history[i].node = node.id}) = 1
    /\ node.id \in DOMAIN nodeInfo.scope
    /\ nodeInfo.scope[node.id] \in DOMAIN scopes \ {builtinsScope}

HasNoScope(node) == node.id \notin DOMAIN nodeInfo.scope

\* The node is, or is part of, a statement the binder went through without
\* walking it, because the code before it had left the flow unreachable.
InUnwalkedStatement(node) ==
    \E i \in Events("statement") :
        ~history[i].walked /\ node \in Descendants(NodeWithId(history[i].node))

\* C6 as the specification states it: once the binder has returned, the
\* module and every class, function, lambda and comprehension of the tree has
\* exactly one scope attached, wherever it stands in the file.
ScopeCoverage ==
    pc = "done" =>
        \A node \in AllNodes : node.t \in ScopedKinds => HasOneScope(node)

\* C6: once the binder has returned, the module and every class, function,
\* lambda and comprehension that is not part of a statement the binder left
\* unwalked has exactly one scope attached, and those that are part of such a
\* statement have none.
ScopeCoverageOfWalkedCode ==
    pc = "done" =>
        \A node \in AllNodes : node.t \in ScopedKinds =>
            IF InUnwalkedStatement(node) THEN HasNoScope(node) ELSE HasOneScope(node)

\* The binder has returned from a file with a class, function, lambda or
\* comprehension it walked and with a definition in a statement it did not
\* walk.
ScopeCoverageOfWalkedCodeWitness ==
    /\ pc = "done"
    /\ \E node \in AllNodes :
           node.t \in {"Class", "Function"} /\ InUnwalkedStatement(node)
    /\ \E node \in AllNodes :
           node.t \in ScopedKinds \ {"Module"} /\ ~InUnwalkedStatement(node)

\* a is an initial part of b.
IsPrefix(a, b) == Len(a) <= Len(b) /\ SubSeq(b, 1, Len(a)) = a

\* A step of the binder leaves every symbol with the declarations it had, in
\* the order it had them, and leaves each its source range.
DeclarationsOnlyAppended ==
    /\ \A k \in DOMAIN symbols :
           /\ k \in DOMAIN symbols'
           /\ IsPrefix(symbols[k].declarations, symbols'[k].declarations)
    /\ \A d \in DOMAIN declarations :
           d \in DOMAIN declarations' /\ declarations'[d].range = declarations[d].range

\* The ranges of the declarations of the symbol that have one, in the order of
\* its list.
DeclaredRanges(symbol) ==
    LET ranges == [i \in DOMAIN symbol.declarations |->
                      declarations[symbol.declarations[i]].range]
    IN  SelectSeq(ranges, LAMBDA r : r # emptyRange)

\* The declarations of every symbol stand in the order of the source.
DeclarationsInSourceOrder ==
    \A k \in DOMAIN symbols :
        LET ranges == DeclaredRanges(symbols[k])
        IN  \A i, j \in DOMAIN ranges : i < j => ranges[i] <= ranges[j]

\* C7 as the specification states it: the binder only ever appends to a
\* symbol's list of declarations, and the declarations of the list stand in
\* the order of their source ranges, also when a deferred function body
\* declares a name of the module.
DeclarationsAppendedInSourceOrder ==
    [][DeclarationsOnlyAppended /\ DeclarationsInSourceOrder']_vars

\* C7: the binder only ever appends to a symbol's list of declarations: no
\* step removes a declaration from a list, reorders a list or changes the
\* range of a declaration.
DeclarationsAppendOnly == [][DeclarationsOnlyAppended]_vars

\* The binder has returned, and a function body bound from the deferred queue
\* has added a declaration to a symbol of the module behind a declaration
\* that stands later in the source.
DeclarationsAppendOnlyWitness ==
    /\ pc = "done"
    /\ \E k \in DOMAIN symbols :
           /\ scopes[symbols[k].scope].type = "Module"
           /\ \E i, j \in DOMAIN DeclaredRanges(symbols[k]) :
                  i < j /\ DeclaredRanges(symbols[k])[i] > DeclaredRanges(symbols[k])[j]

\* ParseTreeUtils.getExecutionScopeNode: the function, lambda or module whose
\* code the node is part of.  Of a function, the suite and the names of the
\* parameters are; of a lambda, the expression and the names of the
\* parameters; the name, the decorators and the default values are code of
\* the scope around.
RECURSIVE ExecutionScopeNodeFrom(_, _)
ExecutionScopeNodeFrom(node, from) ==
    LET parent == parentOf[from.id]
        grandparent == parentOf[parent.id]
    IN  IF parent.t = "Module" THEN parent
        ELSE IF parent.t = "Function" /\ from = parent.suite THEN parent
        ELSE IF parent.t = "Lambda" /\ from = parent.expression THEN parent
        ELSE IF /\ parent.t = "Parameter" /\ from = node /\ parent.name = node
                /\ grandparent.t \in {"Function", "Lambda"}
        THEN grandparent
        ELSE ExecutionScopeNodeFrom(node, parent)

ExecutionScopeNode(node) == ExecutionScopeNodeFrom(node, node)

\* The expressions whose reference keys the flow node stands for: the target
\* of an assignment, the narrowed subjects of a condition.
ReferencesOf(f) ==
    IF "Assignment" \in flowNodes[f].flags THEN {NodeWithId(flowNodes[f].node)}
    ELSE Range(isNarrowingExpression(NodeWithId(flowNodes[f].expression), <<>>).list)

ReferenceFlowNodes ==
    {f \in DOMAIN flowNodes :
        flowNodes[f].flags \cap {"Assignment", "TrueCondition", "FalseCondition"} # {}}

\* The reference map attached to the execution scope of the node, if one is
\* attached already (0 if not).
ReferenceMapOf(node) ==
    LET scopeNode == ExecutionScopeNode(node)
    IN  IF scopeNode.id \in DOMAIN nodeInfo.codeFlowExpressions
        THEN nodeInfo.codeFlowExpressions[scopeNode.id] ELSE 0

\* C8: for every Assignment and Condition flow node, the reference key of the
\* assignment target, and of every narrowed subject of the condition, is in
\* the reference map of the function, lambda or module whose code the
\* expression is part of, also when that is a function whose body was bound
\* from the deferred queue; once the binder has returned every such map is
\* attached.
ReferenceMapClosure ==
    \A f \in ReferenceFlowNodes : \A reference \in ReferencesOf(f) :
        /\ pc = "done" => ReferenceMapOf(reference) # 0
        /\ ReferenceMapOf(reference) # 0
               => createKeyForReference(reference)
                      \in referenceMaps[ReferenceMapOf(reference)]

\* The binder has returned; an Assignment node stands for a target in a
\* function body bound from the deferred queue, whose key is not in the map
\* of the module, and there is a Condition node.
ReferenceMapClosureWitness ==
    /\ pc = "done"
    /\ \E f \in ReferenceFlowNodes :
           /\ "Assignment" \in flowNodes[f].flags
           /\ \E reference \in ReferencesOf(f) :
                  /\ ExecutionScopeNode(reference).t = "Function"
                  /\ createKeyForReference(reference)
                         \notin referenceMaps[nodeInfo.codeFlowExpressions[tree.id]]
    /\ \E f \in ReferenceFlowNodes : "Assignment" \notin flowNodes[f].flags

\* C9: for every WildcardImport flow node, every name the node lists is a key
\* of the reference map of the execution scope the import stands in.
WildcardImportNamesInReferenceMap ==
    \A f \in DOMAIN flowNodes :
        "WildcardImport" \in flowNodes[f].flags =>
            LET map == ReferenceMapOf(NodeWithId(flowNodes[f].node))
            IN  map # 0 => \A i \in DOMAIN flowNodes[f].names :
                               <<flowNodes[f].names[i]>> \in referenceMaps[map]

\* C10: when the binder has run twice over the same tree, each time with the
\* flow node ids starting over, the second run leaves the flow graph of the
\* first (the same nodes with the same kinds and antecedents under the same
\* ids) and the same flow nodes attached to the same parse nodes, whether or
\* not the tree still carried what the first run had attached.
Idempotence ==
    (pc = "done" /\ run = 2) =>
        /\ flowNodes = firstRun.flowNodes
        /\ nodeInfo.flowNode = firstRun.flowNode
        /\ nodeInfo.afterFlowNode = firstRun.afterFlowNode

\* The second run has returned over a tree that still carried the
\* attachments of the first, and it has created an Assignment node that
\* unbinds its target and one that binds it.
IdempotenceWitness ==
    /\ pc = "done"
    /\ run = 2
    /\ ~firstRun.cleaned
    /\ \E f \in DOMAIN flowNodes : "Unbind" \in flowNodes[f].flags
    /\ \E f \in DOMAIN flowNodes : flowNodes[f].flags = {"Assignment"}

\* The BranchLabel and LoopLabel flow nodes.
Labels == {f \in DOMAIN flowNodes : flowNodes[f].flags \cap {"BranchLabel", "LoopLabel"} # {}}

\* C11: for every label of every state the binder comes to, finishing the
\* label gives the Unreachable singleton when the label has no antecedents,
\* its sole antecedent when it has exactly one and the label itself when it
\* has two or more, and making the result the current flow node leaves the
\* label, like every other flow node, as it was.
FinishLabelContract ==
    \A lbl \in Labels :
        /\ Len(flowNodes[lbl].antecedents) = 0
               => finishFlowLabel(State, lbl) = unreachableFlowNode
        /\ Len(flowNodes[lbl].antecedents) = 1
               => finishFlowLabel(State, lbl) = flowNodes[lbl].antecedents[1]
        /\ Len(flowNodes[lbl].antecedents) >= 2
               => finishFlowLabel(State, lbl) = lbl
        /\ finishFlowLabelAsCurrent(State, lbl).flowNodes = flowNodes
        /\ finishFlowLabelAsCurrent(State, lbl).currentFlowNode = finishFlowLabel(State, lbl)

\* There are labels of no, one and two antecedents, and the binder has
\* finished a label of two: it is the current flow node.
FinishLabelContractWitness ==
    /\ \E lbl \in Labels : Len(flowNodes[lbl].antecedents) = 0
    /\ \E lbl \in Labels : Len(flowNodes[lbl].antecedents) = 1
    /\ currentFlowNode \in Labels
    /\ "BranchLabel" \in flowNodes[currentFlowNode].flags
    /\ Len(flowNodes[currentFlowNode].antecedents) >= 2

\* The expression nodes of the tree.
Expressions ==
    {n \in AllNodes : n.t \in {"Name", "Constant", "BinaryOperation", "UnaryOperation",
                               "Call", "MemberAccess", "AssignmentExpression"}}

\* The expression statically evaluates to the opposite of the flag.
StaticallyOpposite(flag, expr) ==
    \/ flag = "TrueCondition" /\ evaluateStaticBoolLikeExpression(expr) = "false"
    \/ flag = "FalseCondition" /\ evaluateStaticBoolLikeExpression(expr) = "true"

\* What condition(flag, antecedent, expr) is to do in the state the binder
\* is in, of its result c.
ConditionAsSpecified(flag, antecedent, expr, c) ==
    IF "Unreachable" \in flowNodes[antecedent].flags
    THEN c.r = antecedent /\ c.s = State
    ELSE IF StaticallyOpposite(flag, expr)
    THEN c.r = unreachableFlowNode /\ c.s = State
    ELSE IF ~isNarrowingExpression(expr, <<>>).r
    THEN c.r = antecedent /\ c.s = State
    ELSE /\ c.r = Len(flowNodes) + 1
         /\ Len(c.s.flowNodes) = Len(flowNodes) + 1
         /\ c.s.flowNodes[c.r].flags = {flag}
         /\ c.s.flowNodes[c.r].antecedent = antecedent
         /\ c.s.flowNodes[c.r].expression = expr.id
         /\ \A reference \in Range(isNarrowingExpression(expr, <<>>).list) :
                createKeyForReference(reference)
                    \in c.s.referenceMaps[currentExecutionScopeReferenceMap]

\* C12: in every state of the walk, for either flag, every flow node as
\* antecedent and every expression of the tree, condition(flag, antecedent,
\* expr) returns the antecedent when it is Unreachable; else Unreachable when
\* the expression statically evaluates to the opposite of the flag; else the
\* antecedent, creating nothing, when the expression is not
\* narrowing-classified; else a new Condition node with that flag, antecedent
\* and expression, with every harvested reference key registered in the
\* reference map of the current execution scope.
ConditionPriorityOrder ==
    currentExecutionScopeReferenceMap # 0 =>
        \A flag \in {"TrueCondition", "FalseCondition"} :
            \A antecedent \in DOMAIN flowNodes : \A expr \in Expressions :
                ConditionAsSpecified(flag, antecedent, expr,
                    createFlowConditional(State, flag, antecedent, expr))

\* The binder has made a Condition node for a narrowing test and registered
\* the key of its reference, and has got Unreachable for a test that is
\* statically the opposite of the flag and a test's antecedent back for one
\* that is not narrowing.
ConditionPriorityOrderWitness ==
    /\ currentExecutionScopeReferenceMap # 0
    /\ \E f \in DOMAIN flowNodes :
           /\ flowNodes[f].flags \cap {"TrueCondition", "FalseCondition"} # {}
           /\ \A reference \in
                  Range(isNarrowingExpression(NodeWithId(flowNodes[f].expression), <<>>).list) :
                  \E map \in DOMAIN referenceMaps :
                      createKeyForReference(reference) \in referenceMaps[map]
    /\ \E lbl \in Labels : unreachableFlowNode \in Range(flowNodes[lbl].antecedents)
    /\ \E expr \in Expressions :
           /\ ~isNarrowingExpression(expr, <<>>).r
           /\ evaluateStaticBoolLikeExpression(expr) = "undefined"
           /\ \E n \in AllNodes : n.t \in {"If", "While"} /\ n.testExpression = expr
           /\ expr.id \in DOMAIN nodeInfo.flowNode

\* No flow node is twice among the antecedents of the label.
AntecedentsDistinct(lbl) ==
    \A i, j \in DOMAIN flowNodes[lbl].antecedents :
        i # j => flowNodes[lbl].antecedents[i] # flowNodes[lbl].antecedents[j]

\* C13: in every state the binder comes to, the antecedents of each label
\* are pairwise distinct, and for every label lbl and flow node n,
\* addAntecedent(lbl, n) changes nothing when the current flow node is
\* Unreachable or n is among the antecedents of lbl already, and otherwise
\* appends n at the end of the antecedents of lbl and changes nothing else.
AddAntecedentContract ==
    /\ \A lbl \in Labels : AntecedentsDistinct(lbl)
    /\ currentFlowNode # 0 =>
           \A lbl \in Labels : \A n \in DOMAIN flowNodes :
               IF \/ "Unreachable" \in flowNodes[currentFlowNode].flags
                  \/ n \in Range(flowNodes[lbl].antecedents)
               THEN addAntecedent(State, lbl, n) = State
               ELSE addAntecedent(State, lbl, n) =
                        [State EXCEPT !.flowNodes[lbl].antecedents =
                                          Append(flowNodes[lbl].antecedents, n)]

\* The binder has appended a second antecedent to a label, and it has walked
\* `if f(): pass`, where the flow at the end of the suite and the flow past
\* the test are the same Call node: the then-label, the else-label and the
\* label after the statement each have that node as their one antecedent.
AddAntecedentContractWitness ==
    /\ \E lbl \in Labels : Len(flowNodes[lbl].antecedents) >= 2
    /\ \E n \in AllNodes : \E c \in DOMAIN flowNodes :
           /\ n.t = "If"
           /\ n.testExpression.t = "Call"
           /\ ~Present(n.elseSuite)
           /\ "Call" \in flowNodes[c].flags
           /\ flowNodes[c].node = n.testExpression.id
           /\ Cardinality({lbl \in Labels : flowNodes[lbl].antecedents = <<c>>}) >= 3

\* The function and lambda nodes that have their scope attached.
ScopedFunctions ==
    {n \in AllNodes : n.t \in {"Function", "Lambda"} /\ n.id \in DOMAIN nodeInfo.scope}

\* The scope of the nearest function, lambda or module around the node.
NearestFunctionOrModuleScope(node) ==
    nodeInfo.scope[innermostAncestor(State, node, {"Function", "Lambda", "Module"}).id]

\* C14: the scope of every function and of every lambda is a Function scope
\* whose parent is the scope of the nearest enclosing function or module,
\* and is not a Class scope.
FunctionScopeParent ==
    \A n \in ScopedFunctions :
        /\ scopes[nodeInfo.scope[n.id]].type = "Function"
        /\ scopes[scopes[nodeInfo.scope[n.id]].parent].type # "Class"
        /\ scopes[nodeInfo.scope[n.id]].parent = NearestFunctionOrModuleScope(n)

\* The try statement has the form `try: a = 1 / except E as e: ... /
\* finally: ...`: one assignment of a number to a name in its body, one
\* except clause and a finally suite.
IsTryExample(n) ==
    /\ n.t = "Try"
    /\ Len(n.trySuite.statements) = 1
    /\ n.trySuite.statements[1].t = "StatementList"
    /\ Len(n.trySuite.statements[1].statements) = 1
    /\ n.trySuite.statements[1].statements[1].t = "Assignment"
    /\ n.trySuite.statements[1].statements[1].leftExpression.t = "Name"
    /\ n.trySuite.statements[1].statements[1].rightExpression.t = "Number"
    /\ Len(n.exceptClauses) = 1
    /\ Present(n.finallySuite)

\* The flow node is the Assignment node of the target of the one assignment
\* in the body of the try statement.
IsBodyAssignment(f, n) ==
    /\ flowNodes[f].flags = {"Assignment"}
    /\ flowNodes[f].node = n.trySuite.statements[1].statements[1].leftExpression.id

\* C15: for every try statement the binder has come to while the flow was
\* reachable, the first antecedent of each of its except labels is the flow
\* node that was current just before the try; and the except label of a try
\* of the form `try: a = 1 / except E as e: a = 2 / finally: a = 3` has two
\* antecedents, that flow node and the Assignment node of `a = 1`.
ExceptLabelAntecedents ==
    \A i \in Events("tryBody") :
        history[i].before # unreachableFlowNode =>
            /\ \A k \in DOMAIN history[i].exceptLabels :
                   /\ Len(flowNodes[history[i].exceptLabels[k]].antecedents) >= 1
                   /\ flowNodes[history[i].exceptLabels[k]].antecedents[1]
                          = history[i].before
            /\ IsTryExample(NodeWithId(history[i].node)) =>
                   /\ Len(flowNodes[history[i].exceptLabels[1]].antecedents) = 2
                   /\ IsBodyAssignment(flowNodes[history[i].exceptLabels[1]].antecedents[2],
                                       NodeWithId(history[i].node))

\* The binder has walked, with the flow reachable, a try statement of that
\* form and another one that has an except clause.
ExceptLabelAntecedentsWitness ==
    /\ \E i \in Events("tryBody") :
           /\ history[i].before # unreachableFlowNode
           /\ IsTryExample(NodeWithId(history[i].node))
    /\ \E i \in Events("tryBody") :
           /\ history[i].before # unreachableFlowNode
           /\ ~IsTryExample(NodeWithId(history[i].node))
           /\ Len(history[i].exceptLabels) >= 1

\* The flow at the end of a suite the binder has gone through.
EndOf(suite) == StatementEvent(suite.statements[Len(suite.statements)]).after

\* The try statements with a finally suite that the binder has walked.
WalkedTryFinally ==
    {n \in AllNodes : /\ n.t = "Try"
                      /\ Present(n.finallySuite)
                      /\ \E i \in Events("statement") :
                             history[i].node = n.id /\ history[i].walked}

\* The end of the try/else path or of an except clause of the try statement
\* was reachable.
SomeEndReachable(n) ==
    \/ EndOf(IF Present(n.elseSuite) THEN n.elseSuite ELSE n.trySuite)
           # unreachableFlowNode
    \/ \E k \in DOMAIN n.exceptClauses :
           EndOf(n.exceptClauses[k].exceptSuite) # unreachableFlowNode

\* C16: after a try statement with a finally suite has been walked, the
\* current flow node is a PostFinally node whose preFinallyGate is the
\* PreFinallyGate created for that try statement and whose antecedent is the
\* flow at the end of the finally suite, when the end of the try/else path
\* or of an except clause was reachable; it is the Unreachable node when
\* none of them was.
PostFinallyAfterTry ==
    \A n \in WalkedTryFinally :
        LET after == StatementEvent(n).after
        IN  IF SomeEndReachable(n)
            THEN /\ flowNodes[after].flags = {"PostFinally"}
                 /\ flowNodes[after].preFinallyGate = history[EventOf("tryBody", n.id)].gate
                 /\ "PreFinallyGate" \in flowNodes[flowNodes[after].preFinallyGate].flags
                 /\ flowNodes[after].antecedent = EndOf(n.finallySuite)
            ELSE after = unreachableFlowNode

\* The binder has walked a try statement with a finally suite none of whose
\* ends was reachable, and one with a reachable end and an except clause
\* that ends in a return; after it the current flow node is a PostFinally
\* node.
PostFinallyAfterTryWitness ==
    /\ \E n \in WalkedTryFinally : ~SomeEndReachable(n)
    /\ \E n \in WalkedTryFinally :
           /\ SomeEndReachable(n)
           /\ \E k \in DOMAIN n.exceptClauses :
                  EndOf(n.exceptClauses[k].exceptSuite) = unreachableFlowNode
           /\ "PostFinally" \in flowNodes[StatementEvent(n).after].flags

\* The function, lambda or module the node stands in.
ExecutionNodeOf(n) == innermostAncestor(State, n, {"Function", "Lambda", "Module"})

\* The try statements with a finally suite, of the function the node stands
\* in, whose try suite, except clauses or else suite hold the node.
TryFinallyAround(n) ==
    {try \in AllNodes :
        /\ try.t = "Try"
        /\ Present(try.finallySuite)
        /\ ExecutionNodeOf(try) = ExecutionNodeOf(n)
        /\ n \in Descendants(try.trySuite)
                  \cup UNION {Descendants(try.exceptClauses[k]) :
                                 k \in DOMAIN try.exceptClauses}
                  \cup (IF Present(try.elseSuite) THEN Descendants(try.elseSuite) ELSE {})}

\* Those whose finally suite holds the node.
TryFinallyEndedBy(n) ==
    {try \in AllNodes :
        /\ try.t = "Try"
        /\ Present(try.finallySuite)
        /\ ExecutionNodeOf(try) = ExecutionNodeOf(n)
        /\ n \in Descendants(try.finallySuite)}

\* The label of the try statement for the returns and raises of its try,
\* except and else parts: the antecedent of its PreFinallyGate.
PreFinallyReturnOrRaiseLabel(try) ==
    flowNodes[history[EventOf("tryBody", try.id)].gate].antecedent

\* The return statements the binder has visited and the flow each was
\* reached with, and the same for the raise statements.
VisitedReturns == {n \in AllNodes : n.t = "Return" /\ n.id \in DOMAIN nodeInfo.flowNode}
VisitedRaises == {n \in AllNodes : n.t = "Raise" /\ n.id \in Range(EventNodes("raise"))}
FlowAt(n) ==
    IF n.t = "Return" THEN nodeInfo.flowNode[n.id] ELSE history[EventOf("raise", n.id)].flow

\* The flow the return or raise was reached with is an antecedent of the
\* label of every try statement with a finally suite around it and of none
\* whose finally suite it stands in, and the flow after it is Unreachable.
FeedsFinallyLabels(n) ==
    /\ \A try \in TryFinallyAround(n) :
           FlowAt(n) \in Range(flowNodes[PreFinallyReturnOrRaiseLabel(try)].antecedents)
    /\ \A try \in TryFinallyEndedBy(n) \ TryFinallyAround(n) :
           FlowAt(n) \notin Range(flowNodes[PreFinallyReturnOrRaiseLabel(try)].antecedents)
    /\ StatementEvent(parentOf[n.id]).after = unreachableFlowNode

\* C17: a return statement the binder visits (it visits reachable
\* statements only) adds the current flow node to the return label of its
\* function and to the pre-finally return-or-raise label of every try
\* statement with a finally suite, in that function, whose try, except or
\* else part it stands in, and a raise statement adds it to all those
\* labels; neither feeds the label of a try statement in whose finally suite
\* it stands; after either, the current flow node is Unreachable.
ReturnAndRaiseFanOut ==
    /\ \A n \in VisitedReturns :
           /\ FlowAt(n) # unreachableFlowNode
           /\ ExecutionNodeOf(n).t = "Function" =>
                  FlowAt(n) \in Range(flowNodes[
                      history[EventOf("returnTarget", ExecutionNodeOf(n).id)].label].antecedents)
           /\ FeedsFinallyLabels(n)
    /\ \A n \in VisitedRaises :
           /\ FlowAt(n) # unreachableFlowNode
           /\ FeedsFinallyLabels(n)

\* The binder has visited a return inside two try statements with finally
\* suites, a raise in the finally suite of the inner one and a return in the
\* finally suite of the outer one.
ReturnAndRaiseFanOutWitness ==
    /\ \E n \in VisitedReturns : Cardinality(TryFinallyAround(n)) = 2
    /\ \E n \in VisitedRaises :
           TryFinallyAround(n) # {} /\ TryFinallyEndedBy(n) \ TryFinallyAround(n) # {}
    /\ \E n \in VisitedReturns :
           TryFinallyAround(n) = {} /\ TryFinallyEndedBy(n) # {}

\* The scope of the module.
ModuleScope == nodeInfo.scope[tree.id]

\* C18: once a global statement has been bound, in whatever scope and
\* whatever was declared before it, every name it lists is a symbol of the
\* scope of the module.
GlobalNameInModuleScope ==
    \A i \in Events("global") :
        history[i].name \in DOMAIN scopes[ModuleScope].symbolTable

\* The binding recorded for the name in the map (None when there is none).
BindingIn(map, name) == IF name \in DOMAIN map THEN map[name] ELSE "None"

\* Of the nonlocal statement's name of event i: the name was bound in the
\* current scope, and it was recorded as Global, when the statement came.
BoundHere(i) ==
    history[i].name \in DOMAIN history[i].scopes[history[i].scope].symbolTable
RecordedGlobal(i) == BindingIn(history[i].bindings, history[i].name) = "Global"

\* C19: a nonlocal statement records a name it lists as Nonlocal in the map
\* of the current scope unless the name is bound in the current scope or
\* recorded as Global already; in those two cases it reports an error and
\* does not record the name as Nonlocal.
NonlocalRecorded ==
    \A i \in Events("nonlocal") :
        IF BoundHere(i) \/ RecordedGlobal(i)
        THEN /\ history[i].errors # {}
             /\ BindingIn(history[i].bindingsAfter, history[i].name) # "Nonlocal"
        ELSE BindingIn(history[i].bindingsAfter, history[i].name) = "Nonlocal"

\* The scopes around the scope, from the innermost on, as they were when
\* the nonlocal statement of event i came.
RECURSIVE ScopesAround(_, _)
ScopesAround(i, scope) ==
    IF history[i].scopes[scope].parent = 0 THEN {}
    ELSE {history[i].scopes[scope].parent}
             \cup ScopesAround(i, history[i].scopes[scope].parent)

\* A function scope around the current one binds the name of event i.
EnclosingFunctionBinds(i) ==
    \E scope \in ScopesAround(i, history[i].scope) :
        /\ history[i].scopes[scope].type = "Function"
        /\ history[i].name \in DOMAIN history[i].scopes[scope].symbolTable

\* The nonlocal statements at module level that the binder has walked.
WalkedModuleNonlocals ==
    {n \in AllNodes :
        /\ n.t = "Nonlocal"
        /\ ExecutionNodeOf(n).t = "Module"
        /\ innermostAncestor(State, n, {"Class", "Module"}).t = "Module"
        /\ \E i \in Events("statement") :
               history[i].node = parentOf[n.id].id /\ history[i].walked}

\* C20: a nonlocal statement in a function reports an error for every name
\* it lists that no function scope around the function binds (the name
\* resolves to the module scope, beyond it, or to nothing), and a nonlocal
\* statement at module level reports an error.
NonlocalErrors ==
    /\ \A i \in Events("nonlocal") :
           (history[i].scopes[history[i].scope].type = "Function"
                /\ ~EnclosingFunctionBinds(i))
               => history[i].errors # {}
    /\ \A n \in WalkedModuleNonlocals :
           \E k \in DOMAIN diagnostics : diagnostics[k].node = n.id

\* The names a for clause of the comprehension binds.
RECURSIVE TargetNames(_)
TargetNames(target) ==
    IF target.t = "Name" THEN {target.value}
    ELSE IF target.t = "Tuple"
    THEN UNION {TargetNames(target.expressions[k]) : k \in DOMAIN target.expressions}
    ELSE {}
ForTargetNames(c) ==
    UNION {TargetNames(c.comprehensions[k].targetExpression) :
              k \in {j \in DOMAIN c.comprehensions :
                        c.comprehensions[j].t = "ListComprehensionFor"}}

\* The assignment expressions in the comprehension that are evaluated with
\* it (those in a lambda in it are bound later, with the lambda).
WalrusesIn(c) ==
    {w \in Descendants(c) :
        /\ w.t = "AssignmentExpression"
        /\ innermostAncestor(State, w, {"Function", "Lambda", "Module", "Class"})
               = innermostAncestor(State, c, {"Function", "Lambda", "Module", "Class"})}

\* The comprehensions around the assignment expression, up to the first
\* node that is none.
RECURSIVE ComprehensionsAround(_)
ComprehensionsAround(n) ==
    LET c == innermostAncestor(State, n,
                 {"ListComprehension", "Function", "Lambda", "Module", "Class"})
    IN  IF c.t = "ListComprehension" THEN {c} \cup ComprehensionsAround(c) ELSE {}

\* The innermost scope around the node that is not the scope of a
\* comprehension, and the innermost lambda, function or module around it.
NonComprehensionNode(n) ==
    innermostAncestor(State, n, {"Function", "Lambda", "Module", "Class"})
Reported(message, n) ==
    \E k \in DOMAIN diagnostics :
        diagnostics[k].message = message /\ diagnostics[k].node = n.id

\* Of the walk of the comprehension of event i: the names it added to the
\* scopes there were before it.
AddedOutside(i) ==
    UNION {DOMAIN history[i].after[k].symbolTable
               \ DOMAIN history[i].before[k].symbolTable : k \in DOMAIN history[i].before}

\* The for targets of a comprehension are the names of its scope and no
\* other scope got them; the comprehension scopes on the way from an
\* assignment expression to its container that bind its name get an error.
ComprehensionTargets(i) ==
    LET c == NodeWithId(history[i].node)
    IN  /\ history[i].after[history[i].scope].type = "ListComprehension"
        /\ DOMAIN history[i].after[history[i].scope].symbolTable = ForTargetNames(c)
        /\ DOMAIN scopes[history[i].scope].symbolTable = ForTargetNames(c)
        /\ AddedOutside(i) \subseteq {w.name.value : w \in WalrusesIn(c)}
        /\ \A w \in WalrusesIn(c) :
               (\E a \in ComprehensionsAround(w) : w.name.value \in ForTargetNames(a))
                   => Reported("assignmentExprComprehension", w.name)

RECURSIVE LoaderPaths(_)
LoaderPaths(actions) ==
    {<<>>} \cup
    UNION {{<<n>> \o path : path \in LoaderPaths(actions.implicitImports[n])} :
              n \in DOMAIN actions.implicitImports}

\* The places in a symbol's declaration list of the Alias declarations with
\* the first name part.
AliasesWith(all, list, part) ==
    {k \in DOMAIN list : all[list[k]].type = "Alias" /\ all[list[k]].firstNamePart = part}

\* The import statement of event i is a resolved one.
ResolvedImportAs(i) ==
    LET importInfo == NodeWithId(history[i].node).module.importInfo
    IN  /\ importInfo.isImportFound
        /\ ~importInfo.isNativeLib
        /\ Len(importInfo.resolvedPaths) > 0

\* The names after the first of the module name of `import a.x.y`, none for
\* `import a.x.y as b`.
RemainingNameParts(node) ==
    IF Present(node.alias) THEN <<>>
    ELSE [k \in 1..(Len(node.module.nameParts) - 1) |-> node.module.nameParts[k + 1].value]

\* C22: after any sequence of resolved import statements `import a.x`,
\* `import a.y` that bind the same symbol, the symbol has at most one Alias
\* declaration whose firstNamePart is a: a later import adds no declaration
\* and replaces none, it extends the implicitImports tree of the one there
\* is, and the entries of the tree from earlier imports are still in it.
OneAliasPerFirstNamePart ==
    /\ \A k \in DOMAIN symbols :
           \A j \in DOMAIN symbols[k].declarations :
               declarations[symbols[k].declarations[j]].firstNamePart # ""
                   => AliasesWith(declarations, symbols[k].declarations,
                          declarations[symbols[k].declarations[j]].firstNamePart) = {j}
    /\ \A i \in Events("importAs") :
           LET ev == history[i]
               node == NodeWithId(ev.node)
               part == node.module.nameParts[1].value
               was == AliasesWith(ev.declarationsBefore, ev.before, part)
               now == AliasesWith(ev.declarationsAfter, ev.after, part)
           IN  ResolvedImportAs(i) =>
                   /\ Cardinality(now) = 1
                   /\ \A k \in now :
                          RemainingNameParts(node)
                              \in LoaderPaths(ev.declarationsAfter[ev.after[k]])
                   /\ was # {} =>
                          /\ ev.after = ev.before
                          /\ \A k \in was :
                                 LoaderPaths(ev.declarationsBefore[ev.before[k]])
                                     \subseteq LoaderPaths(ev.declarationsAfter[ev.after[k]])

\* An import statement has extended the tree of the declaration an earlier
\* import made, a tree that was two names deep already.
OneAliasPerFirstNamePartWitness ==
    \E i \in Events("importAs") :
        LET ev == history[i]
            part == NodeWithId(ev.node).module.nameParts[1].value
        IN  /\ ResolvedImportAs(i)
            /\ \E k \in AliasesWith(ev.declarationsBefore, ev.before, part) :
                   /\ \E path \in LoaderPaths(ev.declarationsBefore[ev.before[k]]) :
                          Len(path) = 2
                   /\ LoaderPaths(ev.declarationsAfter[ev.after[k]])
                          # LoaderPaths(ev.declarationsBefore[ev.before[k]])

\* The Alias declarations the wildcard import at node n has made, and the
\* names of the module it has imported with them.
WildcardDeclarations(n) ==
    {d \in DOMAIN declarations :
        declarations[d].type = "Alias" /\ declarations[d].node = n}
WildcardImported(n) == {declarations[d].symbolName : d \in WildcardDeclarations(n)}

\* The names a module hands to a wildcard import: those of its export list
\* when it advertises one, else those of its symbol table that do not start
\* with an underscore and are not flagged ignored for protocol matches.
ExportedNames(lookupInfo) ==
    IF lookupInfo.hasDunderAll THEN Range(lookupInfo.namesInDunderAll)
    ELSE {lookupInfo.symbolTable[k].name : k \in
             {j \in DOMAIN lookupInfo.symbolTable :
                 /\ ~startsWithUnderscore(lookupInfo.symbolTable[j].name)
                 /\ ~lookupInfo.symbolTable[j].isIgnoredForProtocolMatch}}
IgnoredNames(lookupInfo) ==
    {lookupInfo.symbolTable[k].name : k \in
        {j \in DOMAIN lookupInfo.symbolTable :
            lookupInfo.symbolTable[j].isIgnoredForProtocolMatch}}

\* The wildcard import of event i has imported exactly the names: one Alias
\* declaration for each, on the symbol of that name in the scope of the
\* statement, and its WildcardImport flow node lists them and no other.
WildcardImports(i, names) ==
    LET n == history[i].node
        table == scopes[history[i].scope].symbolTable
    IN  /\ WildcardImported(n) = names
        /\ Cardinality(WildcardDeclarations(n)) = Cardinality(names)
        /\ \A d \in WildcardDeclarations(n) :
               /\ declarations[d].symbolName \in DOMAIN table
               /\ d \in Range(symbols[table[declarations[d].symbolName]].declarations)
        /\ \A f \in DOMAIN flowNodes :
               ("WildcardImport" \in flowNodes[f].flags /\ flowNodes[f].node = n)
                   => /\ Range(flowNodes[f].names) = names
                      /\ Len(flowNodes[f].names) = Cardinality(names)

WildcardLookup(i) ==
    importLookup(NodeWithId(history[i].node).module.nameParts[1].value)

\* C23: a wildcard import imports exactly the names of the export list of
\* the module when the module advertises one, and else every name of its
\* symbol table that does not start with `_` and is not flagged ignored
\* for protocol matches; each imported name gets one Alias declaration and
\* the WildcardImport flow node lists exactly the imported names.
WildcardImportsExportedNames ==
    \A i \in Events("wildcardImport") :
        WildcardImports(i, ExportedNames(WildcardLookup(i)))

\* C23, as the binder does it: the names flagged ignored for protocol
\* matches are left out of an export list as well.
WildcardImportsExportedNamesNotIgnored ==
    \A i \in Events("wildcardImport") :
        WildcardImports(i, ExportedNames(WildcardLookup(i))
                               \ IgnoredNames(WildcardLookup(i)))

\* The binder has walked a wildcard import of a module with an export list
\* that holds a name with an underscore and an ignored name, and has made
\* its flow node, and one of a module without.
WildcardImportsExportedNamesNotIgnoredWitness ==
    /\ \E i \in Events("wildcardImport") :
           /\ WildcardLookup(i).hasDunderAll
           /\ "_h" \in WildcardImported(history[i].node)
           /\ ExportedNames(WildcardLookup(i)) \cap IgnoredNames(WildcardLookup(i)) # {}
           /\ \E f \in DOMAIN flowNodes :
                  "WildcardImport" \in flowNodes[f].flags
                      /\ flowNodes[f].node = history[i].node
    /\ \E i \in Events("wildcardImport") :
           /\ ~WildcardLookup(i).hasDunderAll
           /\ "w" \in WildcardImported(history[i].node)

\* The Assignment flow nodes of the name of the except clause.
ExceptNameAssignments(n) ==
    {f \in DOMAIN flowNodes :
        "Assignment" \in flowNodes[f].flags /\ flowNodes[f].node = n.name.id}

\* C24: an except clause `except E as e` whose body end is reachable gets
\* two Assignment flow nodes for e, in this order: a plain one at the entry
\* of the clause, before the body, and one with the Unbind flag after the
\* body; the flow node attached to the name node e is still the assignment
\* at the entry after the Unbind node is made.
ExceptNameBoundThenUnbound ==
    \A i \in Events("except") :
        LET ev == history[i]
            n == NodeWithId(ev.node)
        IN  ~isUnreachable(State, ev.end) =>
                \E p, u \in ExceptNameAssignments(n) :
                    /\ ExceptNameAssignments(n) = {p, u}
                    /\ p = ev.first + 1
                    /\ u = ev.last + 1
                    /\ p < u
                    /\ "Unbind" \notin flowNodes[p].flags
                    /\ "Unbind" \in flowNodes[u].flags
                    /\ flowNodes[p].antecedent = ev.entry
                    /\ flowNodes[u].antecedent = ev.end
                    /\ n.name.id \in DOMAIN nodeInfo.flowNode
                    /\ nodeInfo.flowNode[n.name.id] = p

\* The binder has walked an except clause with a name whose body makes a
\* flow node of its own and ends reachable.
ExceptNameBoundThenUnboundWitness ==
    \E i \in Events("except") :
        /\ ~isUnreachable(State, history[i].end)
        /\ history[i].end > history[i].first + 1
        /\ Cardinality(ExceptNameAssignments(NodeWithId(history[i].node))) = 2

\* The loop a break or continue statement at node n belongs to: the
\* innermost loop that has n in its body; the else suite of a loop belongs
\* to the loops around it.  None when there is no such loop.
RECURSIVE LoopOf(_)
LoopOf(n) ==
    LET a == innermostAncestor(State, n,
                 {"For", "While", "Function", "Lambda", "Class", "Module"})
        body == IF a.t = "For" THEN a.forSuite ELSE a.whileSuite
    IN  IF a.t \notin {"For", "While"} THEN None
        ELSE IF n \in Descendants(body) THEN a ELSE LoopOf(a)

\* The flows of the break (continue) statements of the loop that the binder
\* has walked.
JumpFlows(kind, loop) ==
    {history[j].flow : j \in {k \in Events(kind) :
                                 LoopOf(NodeWithId(history[k].node)).id = loop.id}}

\* The flow at the end of the body of the for statement.
ForBodyEnd(n) == history[EventOf("forBody", n)].end

\* C25: in a for statement, continue adds the current flow to the loop
\* label preFor and break adds it to postFor; the end of the body goes back
\* to preFor; the else suite is entered from finish(preElse), whose only
\* antecedent is preFor, so no break reaches it; postFor gets exactly the
\* flows of the breaks and the flow at the end of the else suite, or of the
\* loop header when there is none; the break and continue targets of the
\* loops around are back in place after the loop.
ForLoopWiring ==
    /\ \A j \in Events("break") \cup Events("continue") :
           LET loop == LoopOf(NodeWithId(history[j].node))
           IN  loop.t = "For" =>
                   \E i \in Events("for") :
                       /\ history[i].node = loop.id
                       /\ history[j].target =
                              IF history[j].e = "break" THEN history[i].postFor
                              ELSE history[i].preFor
    /\ \A i \in Events("for") :
           LET ev == history[i]
               n == NodeWithId(ev.node)
           IN  /\ Range(flowNodes[ev.preFor].antecedents) =
                      {ev.header} \cup JumpFlows("continue", n)
                          \cup {f \in {ForBodyEnd(ev.node)} : ~isUnreachable(State, f)}
               /\ flowNodes[ev.preElse].antecedents = <<ev.preFor>>
               /\ ev.elseEntry = ev.preFor
               /\ Range(flowNodes[ev.postFor].antecedents) =
                      JumpFlows("break", n)
                          \cup {f \in {ev.elseEnd} : ~isUnreachable(State, f)}
               /\ ~Present(n.elseSuite) => ev.elseEnd = ev.preFor
               /\ ev.restored = ev.targets

\* The binder has walked a for statement in the body of another: the inner
\* one has a break in its body and a break in its else suite, which went to
\* the postFor label of the outer one; the end of the body of the outer one
\* went back to its preFor label; and a for statement with a continue in
\* its body has been walked.
ForLoopWiringWitness ==
    /\ \E i, o \in Events("for") :
           /\ history[i].targets = <<history[o].preFor, history[o].postFor>>
           /\ JumpFlows("break", NodeWithId(history[i].node)) # {}
           /\ JumpFlows("break", NodeWithId(history[o].node)) # {}
           /\ history[i].preFor \in Range(flowNodes[history[o].postFor].antecedents)
           /\ Len(flowNodes[history[o].postFor].antecedents) = 2
           /\ ForBodyEnd(history[o].node)
                  \in Range(flowNodes[history[o].preFor].antecedents)
    /\ \E i \in Events("for") : JumpFlows("continue", NodeWithId(history[i].node)) # {}

\* The static value of the test of the while statement.
WhileTest(n) == evaluateStaticBoolLikeExpression(NodeWithId(n).testExpression)

\* C26: when the test of a while statement is statically true, the else
\* suite is entered with the Unreachable flow and the flow after the loop
\* is Unreachable unless a reachable break goes to this loop; when it is
\* statically false, the body is entered with the Unreachable flow and the
\* else suite is entered reachable, as is the flow after the loop (unless
\* the else suite ends unreachable).
WhileStaticTest ==
    \A i \in Events("while") :
        LET ev == history[i]
            n == NodeWithId(ev.node)
            body == history[EventOf("whileBody", ev.node)]
        IN  /\ WhileTest(ev.node) = "true" =>
                   /\ isUnreachable(State, ev.elseEntry)
                   /\ isUnreachable(State, ev.after) <=> JumpFlows("break", n) = {}
            /\ WhileTest(ev.node) = "false" =>
                   /\ isUnreachable(State, body.entry)
                   /\ ~isUnreachable(State, ev.elseEntry)
                   /\ isUnreachable(State, ev.after) <=> isUnreachable(State, ev.elseEnd)
                   /\ ~Present(n.elseSuite) => ~isUnreachable(State, ev.after)

\* The binder has walked a while statement with a statically true test and
\* a break, one with such a test and none, and one with a statically false
\* test and an else suite.
WhileStaticTestWitness ==
    /\ \E i \in Events("while") :
           /\ WhileTest(history[i].node) = "true"
           /\ JumpFlows("break", NodeWithId(history[i].node)) # {}
           /\ ~isUnreachable(State, history[i].after)
    /\ \E i \in Events("while") :
           /\ WhileTest(history[i].node) = "true"
           /\ isUnreachable(State, history[i].after)
    /\ \E i \in Events("while") :
           /\ WhileTest(history[i].node) = "false"
           /\ Present(NodeWithId(history[i].node).elseSuite)
           /\ ~isUnreachable(State, history[i].after)

\* The static value of the test of the if statement, and the flows of its
\* then arm.
IfTest(n) == evaluateStaticBoolLikeExpression(NodeWithId(n).testExpression)
IfThen(n) == history[EventOf("ifThen", n)]

\* The operands of the test: the test itself, or those of its and, or and
\* not operators.
RECURSIVE Operands(_)
Operands(expression) ==
    IF isLogicalExpression(expression)
    THEN UNION {Operands(Children(expression)[k]) : k \in DOMAIN Children(expression)}
    ELSE {expression}

\* The arms of the if statement of event i for a static test, and the flow
\* after the statement: a statically true test makes the entry of the else
\* arm Unreachable, a statically false one that of the then arm; the flow
\* after the statement is Unreachable exactly when both arms end
\* Unreachable, and else the end of each arm that ends reachable is that
\* flow or an antecedent of it.
IfArms(i) ==
    LET ev == history[i]
        then == IfThen(ev.node)
        ends == {f \in {then.end, ev.elseEnd} : ~isUnreachable(State, f)}
    IN  /\ IfTest(ev.node) = "true" => isUnreachable(State, ev.elseEntry)
        /\ IfTest(ev.node) = "false" => isUnreachable(State, then.entry)
        /\ isUnreachable(State, ev.after) <=> ends = {}
        /\ \A f \in ends :
               \/ ev.after = f
               \/ f \in Range(flowNodes[ev.after].antecedents)

\* C27: in an if statement a statically true test makes the entry flow of
\* the else arm Unreachable and a statically false one that of the then
\* arm; with a test that is not constant neither arm is Unreachable; the
\* flow after the statement is Unreachable exactly when both arms end
\* Unreachable, and else a backward walk from it reaches the end of every
\* arm that ended reachable.
IfStaticTest ==
    \A i \in Events("if") :
        /\ IfArms(i)
        /\ IfTest(history[i].node) = "undefined" =>
               /\ ~isUnreachable(State, IfThen(history[i].node).entry)
               /\ ~isUnreachable(State, history[i].elseEntry)

\* C27, as the binder does it: with a test that is not constant neither arm
\* is Unreachable when no operand of the test is statically constant; a
\* constant operand can close an arm (the then arm of `if x and False`).
IfStaticTestOperands ==
    \A i \in Events("if") :
        /\ IfArms(i)
        /\ (\A operand \in Operands(NodeWithId(history[i].node).testExpression) :
                evaluateStaticBoolLikeExpression(operand) = "undefined") =>
               /\ ~isUnreachable(State, IfThen(history[i].node).entry)
               /\ ~isUnreachable(State, history[i].elseEntry)

\* The binder has walked an if statement with a statically true test and an
\* else suite, one with a test that is not constant whose arms both end
\* unreachable, one whose then arm a constant operand closes, and one the
\* flow after which is a label of the ends of two arms.
IfStaticTestOperandsWitness ==
    /\ \E i \in Events("if") :
           /\ IfTest(history[i].node) = "true"
           /\ Present(NodeWithId(history[i].node).elseSuite)
    /\ \E i \in Events("if") :
           /\ IfTest(history[i].node) = "undefined"
           /\ ~isUnreachable(State, IfThen(history[i].node).entry)
           /\ ~isUnreachable(State, history[i].elseEntry)
           /\ isUnreachable(State, history[i].after)
    /\ \E i \in Events("if") :
           /\ IfTest(history[i].node) = "undefined"
           /\ isUnreachable(State, IfThen(history[i].node).entry)
    /\ \E i \in Events("if") :
           /\ Len(flowNodes[history[i].after].antecedents) = 2
           /\ IfThen(history[i].node).end
                  \in Range(flowNodes[history[i].after].antecedents)

\* The expressions `X is Y` and `X is not Y` of the tree whose Y is not the
\* None constant and whose X is not a call type(Z): the comparisons between
\* operands.
IsComparisons ==
    {e \in Expressions :
        /\ e.t = "BinaryOperation"
        /\ e.operator \in {"Is", "IsNot"}
        /\ ~(e.rightExpression.t = "Constant" /\ e.rightExpression.constType = "None")
        /\ e.leftExpression.t # "Call"}

\* The Condition flow nodes the binder has made for the expression.
ConditionsOf(e) ==
    {f \in DOMAIN flowNodes :
        /\ flowNodes[f].flags \cap {"TrueCondition", "FalseCondition"} # {}
        /\ flowNodes[f].expression = e.id}

\* The tests of the if statements the binder has walked.
WalkedTests == {NodeWithId(history[i].node).testExpression : i \in Events("if")}

\* C28: for `X is Y` and `X is not Y` between operands, the narrowing
\* classifier takes both sides: it harvests the references of X and of Y
\* that are supported, and is true when either side is narrowing.
IsNarrowsBothSides ==
    \A e \in IsComparisons :
        LET left == isNarrowingExpression(e.leftExpression, <<>>)
            right == isNarrowingExpression(e.rightExpression, <<>>)
        IN  isNarrowingExpression(e, <<>>)
                = [r |-> left.r \/ right.r, list |-> left.list \o right.list]

\* C28, as the binder does it: the classifier takes the left side of
\* `X is Y` only; it harvests what X gives and is true exactly when X is
\* narrowing, and the binder makes Condition nodes for such a test it walks
\* only then.
IsNarrowsLeftSide ==
    \A e \in IsComparisons :
        /\ isNarrowingExpression(e, <<>>) = isNarrowingExpression(e.leftExpression, <<>>)
        /\ ConditionsOf(e) # {} => isNarrowingExpression(e.leftExpression, <<>>).r

\* The binder has walked a test `x is y`, made Condition nodes for it and
\* harvested x alone, and a test `1 is not y`, for which it made none.
IsNarrowsLeftSideWitness ==
    /\ \E e \in IsComparisons \cap WalkedTests :
           /\ ConditionsOf(e) # {}
           /\ e.rightExpression.t = "Name"
           /\ isNarrowingExpression(e, <<>>).list = <<e.leftExpression>>
    /\ \E e \in IsComparisons \cap WalkedTests :
           /\ ConditionsOf(e) = {}
           /\ e.rightExpression.t = "Name"
           /\ e.leftExpression.t = "Number"

\* The shapes the classifier is true for, those with a comparison by == or
\* != of operands among them or not.
RECURSIVE NarrowingShape(_, _)
NarrowingShape(e, equalsBetweenOperands) ==
    LET againstNone ==
            e.rightExpression.t = "Constant" /\ e.rightExpression.constType = "None"
    IN  CASE e.t \in {"Name", "MemberAccess"} -> isCodeFlowSupportedForReference(e)
          [] e.t = "AssignmentExpression" -> TRUE
          [] e.t = "BinaryOperation" ->
                \/ e.operator \in {"Is", "IsNot", "In"}
                \/ e.operator \in {"Equals", "NotEquals"}
                       /\ (againstNone \/ equalsBetweenOperands)
          [] e.t = "UnaryOperation" ->
                e.operator = "Not" /\ NarrowingShape(e.expression, equalsBetweenOperands)
          [] e.t = "AugmentedAssignment" -> TRUE
          [] e.t = "Call" ->
                /\ e.leftExpression.t = "Name"
                /\ \/ /\ e.leftExpression.value \in {"isinstance", "issubclass"}
                      /\ Len(e.arguments) = 2
                   \/ /\ e.leftExpression.value = "callable"
                      /\ Len(e.arguments) = 1
          [] OTHER -> FALSE

\* C29: the narrowing classifier is true only for the listed shapes:
\* supported names and member chains, assignment expressions, is, is not,
\* == and != against the None constant, is and is not between operands,
\* type(X) is Y, in, not of a narrowing operand, right sides of augmented
\* assignments, isinstance and issubclass with two arguments, callable
\* with one; for every other shape, `X == Y` with Y not the None constant
\* among them, it is false and harvests no key.
ClassifierListedShapes ==
    \A e \in Expressions :
        /\ isNarrowingExpression(e, <<>>).r => NarrowingShape(e, FALSE)
        /\ ~NarrowingShape(e, FALSE) => isNarrowingExpression(e, <<>>).list = <<>>

\* C29, as the binder does it: `X == Y` and `X != Y` between operands are
\* shapes the classifier can be true for as well, it harvests both sides of
\* them and is true when either is narrowing; for every other shape it is
\* false, whenever it is false it has harvested no key, and the binder makes
\* Condition nodes only for expressions it is true for.
ClassifierShapes ==
    \A e \in Expressions :
        /\ isNarrowingExpression(e, <<>>).r => NarrowingShape(e, TRUE)
        /\ ~isNarrowingExpression(e, <<>>).r => isNarrowingExpression(e, <<>>).list = <<>>
        /\ ConditionsOf(e) # {} => isNarrowingExpression(e, <<>>).r
        /\ (e.t = "BinaryOperation" /\ e.operator \in {"Equals", "NotEquals"}
                /\ e.rightExpression.t # "Constant") =>
               LET left == isNarrowingExpression(e.leftExpression, <<>>)
                   right == isNarrowingExpression(e.rightExpression, <<>>)
               IN  isNarrowingExpression(e, <<>>)
                       = [r |-> left.r \/ right.r, list |-> left.list \o right.list]

\* The binder has walked a test `x == y` and made Condition nodes for it,
\* with the key of y in the reference map, and a test `x < y`, for which it
\* made none.
ClassifierShapesWitness ==
    /\ \E e \in WalkedTests :
           /\ e.t = "BinaryOperation" /\ e.operator = "Equals"
           /\ e.rightExpression.t = "Name"
           /\ ConditionsOf(e) # {}
           /\ isNarrowingExpression(e, <<>>).list = <<e.leftExpression, e.rightExpression>>
           /\ \E k \in DOMAIN referenceMaps :
                  createKeyForReference(e.rightExpression) \in referenceMaps[k]
    /\ \E e \in WalkedTests :
           /\ e.t = "BinaryOperation" /\ e.operator = "LessThan"
           /\ ConditionsOf(e) = {}

\* The binding of the expression as a conditional, and the flow its
\* condition of the flag gave.
Conditional(n) == history[EventOf("conditional", n.id)]
ConditionFlow(n, flag) ==
    history[CHOOSE j \in Events("condition") :
                history[j].node = n.id /\ history[j].flag = flag]

\* The label went the flow, which is one of its antecedents.
GoesTo(flow, label) == flow \in Range(flowNodes[label].antecedents)

\* C30: in a conditional test with true target T and false target F, for
\* `a and b` the FalseCondition of a goes to F and b is evaluated on the
\* flow of the TrueCondition of a with the targets (T, F); for `a or b` the
\* TrueCondition of a goes to T and b is evaluated on the flow of the
\* FalseCondition of a with the targets (T, F); for `not a`, a is bound
\* with the targets (F, T); no Condition node is made for the and, or, not
\* expression itself; the targets there were before are back in place after
\* the conditional.
LogicalConnectives ==
    /\ \A f \in DOMAIN flowNodes :
           flowNodes[f].flags \cap {"TrueCondition", "FalseCondition"} # {}
               => ~isLogicalExpression(NodeWithId(flowNodes[f].expression))
    /\ \A i \in Events("conditional") :
           LET ev == history[i]
               n == NodeWithId(ev.node)
               a == IF n.t = "UnaryOperation" THEN n.expression ELSE n.leftExpression
               b == n.rightExpression
               T == ev.trueTarget
               F == ev.falseTarget
           IN  /\ ev.restored = ev.saved
               /\ isLogicalExpression(n) =>
                      /\ \A j \in Events("condition") : history[j].node # n.id
                      /\ n.operator = "Not" =>
                             /\ Conditional(a).trueTarget = F
                             /\ Conditional(a).falseTarget = T
                      /\ n.operator = "And" =>
                             /\ Conditional(a).falseTarget = F
                             /\ Conditional(a).trueTarget \notin {T, F}
                             /\ Conditional(b).trueTarget = T
                             /\ Conditional(b).falseTarget = F
                             /\ ~isLogicalExpression(a) =>
                                    /\ GoesTo(ConditionFlow(a, "FalseCondition").flow, F)
                                    /\ Conditional(b).entry
                                           = ConditionFlow(a, "TrueCondition").flow
                      /\ n.operator = "Or" =>
                             /\ Conditional(a).trueTarget = T
                             /\ Conditional(a).falseTarget \notin {T, F}
                             /\ Conditional(b).trueTarget = T
                             /\ Conditional(b).falseTarget = F
                             /\ ~isLogicalExpression(a) =>
                                    /\ GoesTo(ConditionFlow(a, "TrueCondition").flow, T)
                                    /\ Conditional(b).entry
                                           = ConditionFlow(a, "FalseCondition").flow

\* The binder has bound a test `not (x or y) and z`: the operand of not with
\* the targets swapped, y on the FalseCondition node of x and z on the
\* FalseCondition node of y.
LogicalConnectivesWitness ==
    \E i \in Events("conditional") :
        LET n == NodeWithId(history[i].node)
        IN  /\ n.t = "BinaryOperation" /\ n.operator = "And"
            /\ n.leftExpression.t = "UnaryOperation"
            /\ n.leftExpression.expression.t = "BinaryOperation"
            /\ n.leftExpression.expression.operator = "Or"
            /\ Conditional(n.leftExpression.expression).trueTarget
                   = history[i].falseTarget
            /\ "FalseCondition" \in
                   flowNodes[Conditional(n.leftExpression.expression.rightExpression).entry].flags
            /\ Conditional(n.rightExpression).entry
                   = ConditionFlow(n.leftExpression.expression.rightExpression,
                                   "FalseCondition").flow
            /\ "FalseCondition" \in flowNodes[Conditional(n.rightExpression).entry].flags

\* The augmented assignments with a bare name as destination for which the
\* binder has emitted the Assignment flow node.
BoundAugmentedAssignments ==
    {n \in AllNodes :
        /\ n.t = "AugmentedAssignment"
        /\ n.destExpression.t = "Name"
        /\ n.destExpression.id \in DOMAIN nodeInfo.flowNode
        /\ nodeInfo.flowNode[n.destExpression.id] # 0}

\* The symbol the Assignment flow node of the augmented assignment targets.
AugmentedTarget(n) == flowNodes[nodeInfo.flowNode[n.destExpression.id]].targetSymbolId

\* The symbols that hold an inferred Variable declaration made for the
\* augmented assignment.
AugmentedDeclared(n) ==
    {y \in DOMAIN symbols :
        \E i \in DOMAIN symbols[y].declarations :
            LET decl == declarations[symbols[y].declarations[i]]
            IN  /\ decl.type = "Variable"
                /\ decl.node = n.destExpression.id
                /\ decl.inferredTypeSource = n.rightExpression.id}

\* C31: after an augmented assignment to a bare name is bound, an inferred
\* Variable declaration for the statement is recorded on the symbol that
\* the emitted Assignment flow node targets, also when the name was not
\* bound in the current scope before the statement.
AugmentedAssignmentDeclares ==
    \A n \in BoundAugmentedAssignments : AugmentedDeclared(n) = {AugmentedTarget(n)}

\* C32: each deferred callback is invoked with the current scope, the
\* non-local-binding map and the execution-scope reference map that were
\* current when its task was enqueued, and with nested-except depth 0,
\* whatever the previous callback (or the module walk) left behind.
DeferredStateRestored ==
    \A c \in Events("callback") :
        \E d \in Events("defer") :
            /\ d < c
            /\ history[d].node = history[c].node
            /\ history[c].scope = history[d].scope
            /\ history[c].notLocalBindings = history[d].nonLocalBindingsMap
            /\ history[c].referenceMap = history[d].codeFlowExpressionMap
            /\ history[c].nestedExceptDepth = 0

\* A callback queued by another callback has been invoked: what the callback
\* before it left behind (the scope, the binding map and the reference map
\* of the module) is not what its task had captured (those of the function
\* that queued it).
DeferredStateRestoredWitness ==
    \E c, p \in Events("callback") :
        /\ p < c
        /\ \E d \in Events("defer") :
               /\ p < d /\ d < c
               /\ history[d].node = history[c].node
        /\ history[c].left.scope # history[c].scope
        /\ history[c].left.notLocalBindings # history[c].notLocalBindings
        /\ history[c].left.referenceMap # history[c].referenceMap
        /\ history[c].left.scope # 0

\* The try statements with a finally suite that the binder has walked, as
\* the events of their bodies.
TriedWithFinally ==
    {i \in Events("tryBody") : Present(NodeWithId(history[i].node).finallySuite)}

\* The flow node the finally suite of the try statement was entered with.
FinallyEntry(n) == Attached(n.finallySuite.statements[1])

\* C33: the finally suite of a reachable try statement is entered with a
\* reachable flow node: the pre-finally label has the PreFinallyGate of the
\* statement as antecedent, the gate's antecedent is the return-or-raise
\* label, and when the try body, the else suite and every except clause
\* end unreachable the gate is the label's only antecedent.  Every gate has
\* isGateClosed = FALSE, in every state.
FinallyAlwaysEntered ==
    /\ \A i \in TriedWithFinally :
           LET ev == history[i]
               n == NodeWithId(ev.node)
           IN  ev.before # unreachableFlowNode =>
                   /\ FinallyEntry(n) # 0
                   /\ FinallyEntry(n) # unreachableFlowNode
                   /\ ~isUnreachable(State, FinallyEntry(n))
                   /\ flowNodes[ev.gate].flags = {"PreFinallyGate"}
                   /\ flowNodes[ev.gate].antecedent = ev.returnOrRaiseLabel
                   /\ ev.gate \in Range(flowNodes[ev.preFinallyLabel].antecedents)
                   /\ ~SomeEndReachable(n) =>
                          /\ flowNodes[ev.preFinallyLabel].antecedents = <<ev.gate>>
                          /\ FinallyEntry(n) = ev.gate
    /\ \A f \in DOMAIN flowNodes :
           "PreFinallyGate" \in flowNodes[f].flags => ~flowNodes[f].isGateClosed

\* The binder has walked a try statement with a finally suite whose body
\* ends in a return and one whose body and except clause both end in a
\* raise.
FinallyAlwaysEnteredWitness ==
    /\ \E i \in TriedWithFinally :
           LET n == NodeWithId(history[i].node)
           IN  /\ history[i].before # unreachableFlowNode
               /\ ~SomeEndReachable(n)
               /\ Len(n.exceptClauses) = 1
               /\ Len(flowNodes[history[i].returnOrRaiseLabel].antecedents) = 2
    /\ \E i \in TriedWithFinally :
           LET n == NodeWithId(history[i].node)
           IN  /\ history[i].before # unreachableFlowNode
               /\ ~SomeEndReachable(n)
               /\ n.trySuite.statements[Len(n.trySuite.statements)].statements[1].t
                      = "Return"
               /\ Len(flowNodes[history[i].returnOrRaiseLabel].antecedents) >= 1

\* The functions whose body the binder has bound.
BoundFunctions ==
    {n \in AllNodes : n.t = "Function" /\ n.id \in DOMAIN nodeInfo.afterFlowNode}

\* The flows the function returns with: those its visited return
\* statements were reached with, and the flow at the end of its body when
\* that is reachable.
ReturnFlows(fn) ==
    {FlowAt(n) : n \in {r \in VisitedReturns : ExecutionNodeOf(r) = fn}}
        \cup {f \in {nodeInfo.afterFlowNode[fn.suite.id]} : ~isUnreachable(State, f)}

\* C34: the after-flow node recorded on a function node is the finished
\* return label: it is Unreachable if and only if the end of the body is
\* unreachable and no return statement of the body was reachable, and
\* otherwise a backward walk from it reaches the flow of every reachable
\* return statement and the reachable end of the body.
FunctionAfterFlow ==
    \A fn \in BoundFunctions :
        LET after == nodeInfo.afterFlowNode[fn.id]
            label == history[EventOf("returnTarget", fn.id)].label
        IN  /\ after = finishFlowLabel(State, label)
            /\ Range(flowNodes[label].antecedents) = ReturnFlows(fn)
            /\ isUnreachable(State, after) <=> ReturnFlows(fn) = {}
            /\ \A f \in ReturnFlows(fn) :
                   after = f \/ f \in Range(flowNodes[after].antecedents)

\* The binder has bound a function that never returns, one that returns
\* from return statements only, and one that returns from a return
\* statement and from the end of its body.
FunctionAfterFlowWitness ==
    /\ \E fn \in BoundFunctions : ReturnFlows(fn) = {}
    /\ \E fn \in BoundFunctions :
           /\ isUnreachable(State, nodeInfo.afterFlowNode[fn.suite.id])
           /\ Cardinality(ReturnFlows(fn)) >= 2
    /\ \E fn \in BoundFunctions :
           /\ ~isUnreachable(State, nodeInfo.afterFlowNode[fn.suite.id])
           /\ Cardinality(ReturnFlows(fn)) >= 2

\* The global statements in a function for a name that was not bound in the
\* function when the statement came.
GlobalsInFunctions ==
    {i \in Events("global") :
        /\ ExecutionNodeOf(NodeWithId(history[i].node)).t = "Function"
        /\ ~history[i].bound}

\* The name nodes of that name in the code of the function the global
\* statement of event i stands in.
NamesDeclaredGlobal(i) ==
    {n \in Descendants(ExecutionNodeOf(NodeWithId(history[i].node)).suite) :
        /\ n.t = "Name"
        /\ n.value = history[i].name
        /\ ExecutionNodeOf(n) = ExecutionNodeOf(NodeWithId(history[i].node))}

\* The symbols that hold a declaration made for the name node.
DeclaredAt(n) ==
    {y \in DOMAIN symbols :
        \E k \in DOMAIN symbols[y].declarations :
            declarations[symbols[y].declarations[k]].node = n.id}

\* C35: once a name is declared global in a function, no binding made for
\* code of the function (an assignment expression in a comprehension of the
\* function included) adds a symbol of that name to the scope of the
\* function; the Assignment flow nodes of the name target the symbol of the
\* module scope, and the declarations go to that symbol.
GlobalNotBoundInFunction ==
    \A i \in GlobalsInFunctions :
        LET name == history[i].name
            moduleSymbol == lookUpSymbol(State, ModuleScope, name)
        IN  /\ name \notin DOMAIN scopes[history[i].scope].symbolTable
            /\ \A n \in NamesDeclaredGlobal(i) :
                   /\ DeclaredAt(n) \subseteq {moduleSymbol}
                   /\ \A f \in DOMAIN flowNodes :
                          ("Assignment" \in flowNodes[f].flags /\ flowNodes[f].node = n.id)
                              => flowNodes[f].targetSymbolId = moduleSymbol

\* The flow nodes made while the callback of event c ran: those after the
\* ones there were when it was invoked, up to the ones there were when the
\* next callback was invoked (callbacks run one after the other).
CallbackFlows(c) ==
    LET later == {d \in Events("callback") : d > c}
        next == CHOOSE d \in later : \A o \in later : d <= o
    IN  (history[c].flows + 1) ..
            (IF later = {} THEN Len(flowNodes) ELSE history[next].flows)

\* C36: when a deferred function or lambda body callback is invoked, the
\* break, continue, true and false targets and the current except targets
\* are unset and the stack of finally targets is empty; no flow made in the
\* body is an antecedent of a label made outside the body, and a break or
\* continue of the body that is in no loop of the body has no target.
ControlFlowContextPerFunction ==
    /\ \A c \in Events("callback") :
           /\ history[c].breakTarget = 0
           /\ history[c].continueTarget = 0
           /\ history[c].trueTarget = 0
           /\ history[c].falseTarget = 0
           /\ history[c].exceptTargets = NoExceptTargets
           /\ history[c].finallyTargets = <<>>
           /\ \A lbl \in Labels \ CallbackFlows(c) :
                  Range(flowNodes[lbl].antecedents) \cap CallbackFlows(c) = {}
    /\ \A j \in Events("break") \cup Events("continue") :
           LoopOf(NodeWithId(history[j].node)) = None => history[j].target = 0

\* The callback of a function defined in the try suite of a try statement
\* with a finally suite, inside a loop, has run: when it was deferred the
\* break target, the except targets and a finally target were set; its body
\* has a break and a continue that are in no loop of the body, and a raise.
ControlFlowContextPerFunctionWitness ==
    \E d \in Events("defer") : \E c \in Events("callback") :
        /\ history[d].node = history[c].node
        /\ history[d].breakTarget # 0
        /\ history[d].exceptTargets # NoExceptTargets
        /\ history[d].finallyTargets # <<>>
        /\ \E j \in Events("break") :
               ExecutionNodeOf(NodeWithId(history[j].node)).id = history[c].node
        /\ \E j \in Events("continue") :
               ExecutionNodeOf(NodeWithId(history[j].node)).id = history[c].node
        /\ \E n \in VisitedRaises : ExecutionNodeOf(n).id = history[c].node

\* The statements recorded on the Function declaration.
RecordedStatements(d) ==
    Range(declarations[d].returnStatements) \cup Range(declarations[d].raiseStatements)
        \cup Range(declarations[d].yieldStatements)

\* C37: a Function declaration has isGenerator set only when the body of
\* its function has a yield of its own, one that is in no nested function
\* or lambda, and its return, raise and yield lists hold only statements of
\* its own body.
YieldAttribution ==
    \A d \in FunctionDeclarations :
        LET function == NodeWithId(declarations[d].node)
        IN  /\ declarations[d].isGenerator => ContainsOwnYield(function.suite)
            /\ \A id \in RecordedStatements(d) :
                   innermostAncestor(State, NodeWithId(id), {"Function", "Lambda"})
                       = function

\* The conditionals the binder has bound for the test of a statement or
\* expression: an if, while, assert, ternary or comprehension filter.
BoundTests ==
    {k \in Events("conditional") :
        LET parent == parentOf[history[k].node]
        IN  /\ parent.t \in {"If", "While", "Assert", "Ternary", "ListComprehensionIf"}
            /\ parent.testExpression.id = history[k].node}

\* C38: the true and false labels of an if, while, assert, ternary or
\* comprehension filter receive Condition antecedents only for the test
\* itself or for operands reached from it through a chain of and, or, not;
\* an and/or inside a non-logical sub-expression of the test adds no
\* antecedent to those labels.
ConditionsOfTheTestOnly ==
    \A k \in BoundTests : \A c \in Events("condition") :
        history[c].target \in {history[k].trueTarget, history[k].falseTarget}
            => NodeWithId(history[c].node)
                   \in Operands(NodeWithId(history[k].node))

\* The event of the entry into the scope that event l leaves.
EntryOf(l) ==
    CHOOSE e \in Events("enterScope") : history[e].scope = history[l].scope

\* The events of kind enterScope and leaveScope strictly between two events.
ScopeEventsBetween(e, l) ==
    {i \in Events("enterScope") \cup Events("leaveScope") : e < i /\ i < l}

\* C39: entering and leaving a scope is balanced: each scope entered is
\* left once, with the scopes entered in between left before it, and the
\* current scope, the non-local-binding map and the current reference map
\* are then the ones there were before the scope was entered; entering a
\* scope allocates a new reference map exactly when the scope is a Builtin,
\* Module or Function scope, and a class or comprehension scope has the
\* reference map of the enclosing execution scope as current.
ScopesBalanced ==
    /\ \A l \in Events("leaveScope") :
           /\ \E e \in Events("enterScope") : history[e].scope = history[l].scope
           /\ EntryOf(l) < l
           /\ \A o \in Events("leaveScope") : history[o].scope = history[l].scope => o = l
           /\ \A i \in ScopeEventsBetween(EntryOf(l), l) :
                  \E j \in ScopeEventsBetween(EntryOf(l), l) :
                      /\ history[i].scope = history[j].scope
                      /\ history[i].e # history[j].e
           /\ history[l].after = history[EntryOf(l)].before
           /\ history[l].inside[1] = history[l].scope
    /\ \A e \in Events("enterScope") :
           /\ scopes[history[e].scope].type = history[e].type
           /\ history[e].type \in {"Builtin", "Module", "Function"} =>
                  \A l \in Events("leaveScope") :
                      history[l].scope = history[e].scope =>
                          /\ history[l].inside[3] = history[e].maps + 1
                          /\ history[l].inside[3] # history[e].before[3]
           /\ history[e].type \notin {"Builtin", "Module", "Function"} =>
                  \A l \in Events("leaveScope") :
                      history[l].scope = history[e].scope =>
                          /\ history[l].inside[3] = history[e].before[3]
                          /\ \A i \in ScopeEventsBetween(e, l) :
                                 history[i].e = "enterScope"
                                     /\ history[i].type \notin {"Function"}
                                     => history[i].maps = history[e].maps
    /\ pc = "done" =>
           \A e \in Events("enterScope") :
               \E l \in Events("leaveScope") : history[l].scope = history[e].scope

\* The binder has returned after it entered and left the scope of a class,
\* of a function, of a lambda and of a comprehension, the comprehension
\* inside the function, with the binding map of the comprehension's own.
ScopesBalancedWitness ==
    /\ pc = "done"
    /\ \E c \in Events("enterScope") : history[c].type = "Class"
    /\ \E k \in Events("enterScope") : \E l \in Events("leaveScope") :
           /\ history[k].type = "ListComprehension"
           /\ history[l].scope = history[k].scope
           /\ scopes[history[k].before[1]].type = "Function"
           /\ history[l].inside[2] # history[k].before[2]
           /\ history[l].inside[3] = history[k].before[3]
           /\ history[l].inside[3] # 0
    /\ \E n \in AllNodes :
           n.t = "Function" /\ n.id \in DOMAIN nodeInfo.scope
    /\ \E n \in AllNodes :
           n.t = "Lambda" /\ n.id \in DOMAIN nodeInfo.scope

\* The callbacks run so far for the body of the node.
CallbacksOf(nodeId) == {c \in Events("callback") : history[c].node = nodeId}

\* The binder has returned, the queue of deferred tasks is empty, and each
\* body that was queued has had its callback run once, and returned.
AllDeferredBound ==
    /\ pc = "done"
    /\ Len(deferredBindingTasks) = 0
    /\ \A d \in Events("defer") :
           /\ Cardinality(CallbacksOf(history[d].node)) = 1
           /\ \E c \in CallbacksOf(history[d].node) : \E r \in Events("returned") :
                  d < c /\ c < r /\ history[r].node = history[d].node
    /\ Cardinality(Events("callback")) = Cardinality(Events("defer"))

====
